---------------------------- MODULE Spec2Model ----------------------------
(***************************************************************************)
(* A model of the agentloop workflow engine (src/src/core/engine.ts), its  *)
(* template resolver and condition evaluator (utils/template.ts) and the   *)
(* zero-config build/review/fix loop (src/src/cli.ts).                     *)
(*                                                                         *)
(* Strings are TLA+ strings; a character is a string of length one, read   *)
(* with SubSeq.  Indices of steps and groups are 0-based as in the source. *)
(***************************************************************************)
EXTENDS Integers, Sequences, FiniteSets, TLC

\* ------------------------------------------------------------------------
\* Bounds of the model
\* ------------------------------------------------------------------------

\* Largest loop.max given to the workflows whose loop budget is left open.
MaxIterations == 2

\* Bound: the number of steps of a generated workflow
MaxSteps == 3

\* ------------------------------------------------------------------------
\* Characters and strings
\* ------------------------------------------------------------------------

Char(s, i) == SubSeq(s, i, i)

CharsOf(s) == { Char(s, i) : i \in 1..Len(s) }

LowerAlpha == "abcdefghijklmnopqrstuvwxyz"

UpperAlpha == "ABCDEFGHIJKLMNOPQRSTUVWXYZ"

\* \w of a JavaScript regular expression: [A-Za-z0-9_]
WordChars == CharsOf(LowerAlpha) \cup CharsOf(UpperAlpha) \cup CharsOf("0123456789_")

\* \s of a JavaScript regular expression, restricted to the characters the
\* model's strings use.
SpaceChars == {" ", "\t", "\n", "\r"}

\* String.prototype.toUpperCase, one character
UpperChar(c) ==
    IF c \in CharsOf(LowerAlpha)
    THEN Char(UpperAlpha, CHOOSE i \in 1..Len(LowerAlpha) : Char(LowerAlpha, i) = c)
    ELSE c

RECURSIVE toUpperCase(_)
toUpperCase(s) ==
    IF s = "" THEN "" ELSE UpperChar(Head(s)) \o toUpperCase(Tail(s))

\* s.slice(i) with a 0-based start
SliceFrom(s, i) == SubSeq(s, i + 1, Len(s))

\* s.startsWith(p)
startsWith(s, p) == Len(s) >= Len(p) /\ SubSeq(s, 1, Len(p)) = p

\* s.includes(sub)
includes(s, sub) ==
    \E i \in 0..(Len(s) - Len(sub)) : SubSeq(s, i + 1, i + Len(sub)) = sub

\* Length of the longest prefix of s made of characters of the class cls
RECURSIVE RunLen(_, _)
RunLen(s, cls) ==
    IF s = "" \/ Head(s) \notin cls THEN 0 ELSE 1 + RunLen(Tail(s), cls)

\* String.prototype.trim (surrounding whitespace only)
RECURSIVE TrimEnd(_)
TrimEnd(s) ==
    IF s = "" \/ Char(s, Len(s)) \notin SpaceChars THEN s
    ELSE TrimEnd(SubSeq(s, 1, Len(s) - 1))

trim(s) == TrimEnd(SliceFrom(s, RunLen(s, SpaceChars)))


\* ------------------------------------------------------------------------
\* Template resolver and condition evaluator (utils/template.ts)
\* ------------------------------------------------------------------------

\* The key class of a template token and of a condition path: [\w.]
PathChars == WordChars \cup {"."}

\* variables[key] ?? "" (a missing path reads as the empty string)
Lookup(variables, key) ==
    IF key \in DOMAIN variables THEN variables[key] ELSE ""

\* One match of /\{\{\s*([\w.]+)\s*\}\}/ anchored at the start of s:
\* [len |-> length of the match, key |-> the captured key], len = 0 when
\* the token does not match here.
TokenAt(s) ==
    IF ~startsWith(s, "{{") THEN [len |-> 0, key |-> ""]
    ELSE LET a    == SliceFrom(s, 2)
             ws1  == RunLen(a, SpaceChars)
             b    == SliceFrom(a, ws1)
             klen == RunLen(b, PathChars)
             c    == SliceFrom(b, klen)
             ws2  == RunLen(c, SpaceChars)
             d    == SliceFrom(c, ws2)
         IN  IF klen > 0 /\ startsWith(d, "}}")
             THEN [len |-> 2 + ws1 + klen + ws2 + 2, key |-> SubSeq(b, 1, klen)]
             ELSE [len |-> 0, key |-> ""]

\* The resolver that replaces a token whose key is not in the store by
\* the bare key
RECURSIVE resolveTemplateBareUnknown(_, _)
resolveTemplateBareUnknown(template, variables) ==
    IF template = "" THEN ""
    ELSE LET t == TokenAt(template)
         IN  IF t.len = 0
             THEN Head(template)
                  \o resolveTemplateBareUnknown(Tail(template), variables)
             ELSE (IF t.key \in DOMAIN variables
                   THEN variables[t.key]
                   ELSE t.key)
                  \o resolveTemplateBareUnknown(SliceFrom(template, t.len),
                                                variables)

\* template.replace(/\{\{\s*([\w.]+)\s*\}\}/g, ...): every token whose key
\* is in the store is replaced by its value, the others are left verbatim.
RECURSIVE resolveTemplate(_, _)
resolveTemplate(template, variables) ==
    IF template = "" THEN ""
    ELSE LET t == TokenAt(template)
         IN  IF t.len = 0
             THEN Head(template) \o resolveTemplate(Tail(template), variables)
             ELSE (IF t.key \in DOMAIN variables
                   THEN variables[t.key]
                   ELSE SubSeq(template, 1, t.len))
                  \o resolveTemplate(SliceFrom(template, t.len), variables)

\* The part of /"?([^"]+)"?$/ : an optional quote, a non-empty text without
\* quotes, an optional quote, the end.  The text, or NoText.
NoText == ""

QuotedText(r) ==
    LET body == IF startsWith(r, "\"") THEN SliceFrom(r, 1) ELSE r
        text == IF body # "" /\ Char(body, Len(body)) = "\""
                THEN SubSeq(body, 1, Len(body) - 1) ELSE body
    IN  IF text # "" /\ "\"" \notin CharsOf(text) THEN text ELSE NoText

\* condition.match(/^([\w.]+)\s+contains\s+"?([^"]+)"?$/i): the captures
\* <<varPath, keyword>>, or << >> when the condition does not match.  The
\* second \s+ is greedy and gives whitespace back only when the rest does
\* not match otherwise.
containsMatch(condition) ==
    LET plen == RunLen(condition, PathChars)
        a    == SliceFrom(condition, plen)
        ws1  == RunLen(a, SpaceChars)
        b    == SliceFrom(a, ws1)
        c    == SliceFrom(b, 8)
        ws2  == RunLen(c, SpaceChars)
        ks   == { k \in 1..ws2 : QuotedText(SliceFrom(c, k)) # NoText }
    IN  IF /\ plen > 0
           /\ ws1 > 0
           /\ Len(b) >= 8
           /\ toUpperCase(SubSeq(b, 1, 8)) = "CONTAINS"
           /\ ks # {}
        THEN LET k == CHOOSE x \in ks : \A y \in ks : y <= x
             IN  <<SubSeq(condition, 1, plen), QuotedText(SliceFrom(c, k))>>
        ELSE << >>

\* condition.match(/^([\w.]+)\s*==\s*(.+)$/): <<varPath, expected>> or << >>.
\* The captured text is compared after trim(), so the whitespace the second
\* \s* takes makes no difference to the caller.
equalsMatch(condition) ==
    LET plen == RunLen(condition, PathChars)
        a    == SliceFrom(condition, plen)
        ws1  == RunLen(a, SpaceChars)
        b    == SliceFrom(a, ws1)
        c    == SliceFrom(b, 2)
    IN  IF plen > 0 /\ startsWith(b, "==") /\ c # ""
        THEN <<SubSeq(condition, 1, plen), c>>
        ELSE << >>

\* evaluateCondition without the `contains` pattern
evaluateConditionEqualsOnly(condition, variables) ==
    LET em == equalsMatch(condition)
    IN  IF em # << >>
        THEN trim(Lookup(variables, em[1])) = trim(em[2])
        ELSE FALSE

\* evaluateCondition with a case-sensitive contains
evaluateConditionCaseSensitive(condition, variables) ==
    LET cm == containsMatch(condition)
        em == equalsMatch(condition)
    IN  IF cm # << >>
        THEN includes(Lookup(variables, cm[1]), cm[2])
        ELSE IF em # << >>
             THEN trim(Lookup(variables, em[1])) = trim(em[2])
             ELSE FALSE

evaluateCondition(condition, variables) ==
    LET cm == containsMatch(condition)
        em == equalsMatch(condition)
    IN  IF cm # << >>
        THEN includes(toUpperCase(Lookup(variables, cm[1])), toUpperCase(cm[2]))
        ELSE IF em # << >>
             THEN trim(Lookup(variables, em[1])) = trim(em[2])
             ELSE FALSE


\* ------------------------------------------------------------------------
\* Workflow definitions (core/schema.ts)
\* ------------------------------------------------------------------------

\* step.loop of a step that declares no loop
NoLoop == [until |-> "", max |-> 0, on_max |-> ""]

\* An agent step: agent + prompt, an optional context list
AgentStep(name, agent, prompt, context, parallel) ==
    [name |-> name, agent |-> agent, prompt |-> prompt, run |-> "",
     context |-> context, parallel |-> parallel, loop |-> NoLoop]

\* A shell step: run
ShellStep(name, run, parallel) ==
    [name |-> name, agent |-> "", prompt |-> "", run |-> run,
     context |-> << >>, parallel |-> parallel, loop |-> NoLoop]

WithLoop(step, until, max, on_max) ==
    [step EXCEPT !.loop = [until |-> until, max |-> max, on_max |-> on_max]]

HasLoop(step) == step.loop # NoLoop

\* ------------------------------------------------------------------------
\* Step grouping (engine.ts, groupSteps)
\* ------------------------------------------------------------------------

\* The batch length that closes a batch after its first member
ParallelRunOne(steps, i) ==
    IF i < Len(steps) /\ steps[i + 1].parallel THEN 1 ELSE 0

\* Number of consecutive parallel steps from the 0-based index i on
RECURSIVE ParallelRun(_, _)
ParallelRun(steps, i) ==
    IF i < Len(steps) /\ steps[i + 1].parallel
    THEN 1 + ParallelRun(steps, i + 1)
    ELSE 0

RECURSIVE GroupsFrom(_, _)
GroupsFrom(steps, i) ==
    IF i >= Len(steps) THEN << >>
    ELSE IF steps[i + 1].parallel
         THEN LET n == ParallelRun(steps, i)
              IN  << [parallel |-> TRUE,
                      steps |-> SubSeq(steps, i + 1, i + n),
                      startIndex |-> i] >> \o GroupsFrom(steps, i + n)
         ELSE << [parallel |-> FALSE,
                  steps |-> << steps[i + 1] >>,
                  startIndex |-> i] >> \o GroupsFrom(steps, i + 1)

\* The grouping with each group's start index taken as the group's ordinal
groupStepsOrdinal(steps) ==
    LET g == GroupsFrom(steps, 0)
    IN  [k \in 1..Len(g) |-> [g[k] EXCEPT !.startIndex = k - 1]]

groupSteps(steps) == GroupsFrom(steps, 0)

\* ------------------------------------------------------------------------
\* Loop configuration and re-entry point (engine.ts, run)
\* ------------------------------------------------------------------------

\* Array.prototype.findIndex, given the predicate's value at each position:
\* 0-based, -1 when none
findIndex(hits) ==
    IF \E i \in 1..Len(hits) : hits[i]
    THEN (CHOOSE i \in 1..Len(hits) :
              hits[i] /\ \A j \in 1..(i - 1) : ~hits[j]) - 1
    ELSE -1

loopStepIndex(config) ==
    findIndex([i \in 1..Len(config.steps) |-> HasLoop(config.steps[i])])

loopConfig(config) ==
    IF loopStepIndex(config) >= 0
    THEN config.steps[loopStepIndex(config) + 1].loop
    ELSE NoLoop

MaxIterationsOf(cfg) ==
    IF loopConfig(cfg) # NoLoop THEN loopConfig(cfg).max ELSE 1

\* The step-name class of the re-entry pattern: [\w\-.]
RefChars == WordChars \cup {"-", "."}

\* until.match(/^steps\.([\w\-.]+)\./) : the captured step name, "" when
\* the condition does not match.  The class is greedy: the capture ends
\* before the last dot of the run of class characters.
condMatch(until) ==
    IF ~startsWith(until, "steps.") THEN ""
    ELSE LET r    == SliceFrom(until, 6)
             n    == RunLen(r, RefChars)
             dots == { k \in 2..n : Char(r, k) = "." }
         IN  IF dots = {} THEN ""
             ELSE SubSeq(r, 1, (CHOOSE k \in dots : \A j \in dots : j <= k) - 1)

\* The re-entry point taken as the referenced step's own index
ReEntryIndexOfStep(cfg) ==
    LET lc == loopConfig(cfg)
    IN  IF lc = NoLoop THEN 0
        ELSE LET refStepName == condMatch(lc.until)
                 refIndex    ==
                     findIndex([i \in 1..Len(cfg.steps) |->
                                   cfg.steps[i].name = refStepName])
             IN  IF refStepName = "" \/ refIndex < 0 THEN 0 ELSE refIndex

ReEntryIndex(cfg) ==
    LET lc     == loopConfig(cfg)
        groups == groupSteps(cfg.steps)
    IN  IF lc = NoLoop THEN 0
        ELSE LET refStepName == condMatch(lc.until)
                 refIndex    ==
                     findIndex([i \in 1..Len(cfg.steps) |->
                                   cfg.steps[i].name = refStepName])
                 owning      == { g \in 1..Len(groups) :
                                    /\ refIndex >= groups[g].startIndex
                                    /\ refIndex < groups[g].startIndex
                                                  + Len(groups[g].steps) }
             IN  IF refStepName = "" \/ refIndex < 0 THEN 0
                 ELSE IF owning # {}
                      THEN groups[CHOOSE g \in owning :
                                          \A h \in owning : g <= h].startIndex
                      ELSE refIndex


\* ------------------------------------------------------------------------
\* The runs of the model: workflow definitions accepted by WorkflowSchema
\* ------------------------------------------------------------------------

\* The agents map of the sample workflows
Agents == [k \in {"builder", "auditor"} |->
              [cli |-> IF k = "builder" THEN "claude-code" ELSE "codex"]]

Until == "steps.audit.output contains APPROVED"

\* Build, audit, fix with the loop declared on audit (max 3)
BuildAuditFix ==
    [name |-> "build-audit-fix", agents |-> Agents,
     steps |-> << AgentStep("build", "builder", "Implement {{ feature_spec }}",
                            << >>, FALSE),
                  WithLoop(AgentStep("audit", "auditor", "Audit the changes.",
                                     << "git:diff" >>, FALSE),
                           Until, 3, "fail"),
                  AgentStep("fix", "builder", "Fix: {{ steps.audit.output }}",
                            << >>, FALSE) >>]

\* The README workflow: the loop is declared on the last step, fix
BuildAuditFixLoopLast(max) ==
    [name |-> "build-and-audit", agents |-> Agents,
     steps |-> << AgentStep("build", "builder", "Implement {{ feature_spec }}",
                            << >>, FALSE),
                  AgentStep("audit", "auditor", "Audit the changes.",
                            << "git:diff" >>, FALSE),
                  WithLoop(AgentStep("fix", "builder",
                                     "Fix: {{ steps.audit.output }}", << >>, FALSE),
                           Until, max, "pause") >>]

\* A parallel batch referenced by the loop condition through its second
\* member, which reads its sibling's output and has a context to resolve.
ParallelAudit ==
    [name |-> "parallel-audit", agents |-> Agents,
     steps |-> << AgentStep("build", "builder", "Implement {{ feature_spec }}",
                            << >>, FALSE),
                  ShellStep("lint", "lint {{ steps.review.exitCode }}", TRUE),
                  AgentStep("review", "auditor",
                            "Review. Lint: {{ steps.lint.output }}",
                            << "git:diff" >>, TRUE),
                  WithLoop(ShellStep("gate", "echo {{ steps.review.output }}", FALSE),
                           "steps.review.output contains \"approved\"", 2,
                           "continue") >>]

\* An audit of the work so far, given as the diff, and a fix when it is not
\* approved: both agents may change files
AuditAndFix ==
    [name |-> "audit-and-fix", agents |-> Agents,
     steps |-> << WithLoop(AgentStep("audit", "auditor", "Audit the changes.",
                                     << "git:diff" >>, FALSE),
                           Until, 2, "fail"),
                  AgentStep("fix", "builder", "Fix: {{ steps.audit.output }}",
                            << >>, FALSE) >>]

\* A loop gated on an exit code, declared on the step after the one it reads
TestAndFix(max) ==
    [name |-> "test-and-fix", agents |-> Agents,
     steps |-> << ShellStep("test", "npm test", FALSE),
                  WithLoop(AgentStep("fix", "builder",
                                     "Fix: {{ steps.test.output }}", << >>, FALSE),
                           "steps.test.exitCode == 0", max, "fail") >>]

\* A loop condition that names no step of the workflow
UnknownRef(max) ==
    [name |-> "unknown-ref", agents |-> Agents,
     steps |-> << ShellStep("prepare", "prepare", FALSE),
                  WithLoop(ShellStep("check", "check", FALSE),
                           "steps.ghost.output contains APPROVED", max, "fail") >>]

\* A loop condition without the steps.<name>. prefix
Unrecognized(max) ==
    [name |-> "unrecognized", agents |-> Agents,
     steps |-> << ShellStep("prepare", "prepare", FALSE),
                  WithLoop(ShellStep("check", "check", FALSE),
                           "something weird", max, "pause") >>]

\* No loop; a lone parallel-flagged step between sequential ones
NoLoopLoneParallel ==
    [name |-> "no-loop", agents |-> Agents,
     steps |-> << ShellStep("a", "a", FALSE),
                  ShellStep("b", "b {{ steps.a.output }}", TRUE),
                  ShellStep("c", "c", FALSE) >>]

\* No loop; a parallel batch followed by a sequential step
LintAndTest ==
    [name |-> "lint-and-test", agents |-> Agents,
     steps |-> << ShellStep("lint", "npm run lint", TRUE),
                  AgentStep("test", "auditor", "Test. {{ steps.lint.output }}",
                            << "git:diff" >>, TRUE),
                  ShellStep("report", "echo {{ steps.test.exitCode }}", FALSE) >>]

\* A parallel batch one member of which references an agent key that the
\* agents map does not define (WorkflowSchema does not cross-check it, and
\* the availability check skips it)
MissingAgentParallel ==
    [name |-> "missing-agent", agents |-> Agents,
     steps |-> << ShellStep("lint", "lint", TRUE),
                  AgentStep("review", "reviewer", "Review.", << >>, TRUE),
                  ShellStep("report", "report", FALSE) >>]

LoopMaxValues == 1..MaxIterations

Workflows ==
    {BuildAuditFix, ParallelAudit, NoLoopLoneParallel, LintAndTest,
     MissingAgentParallel, AuditAndFix, TestAndFix(0)}
    \cup { BuildAuditFixLoopLast(m) : m \in LoopMaxValues }
    \cup { TestAndFix(m) : m \in LoopMaxValues }
    \cup { UnknownRef(m) : m \in LoopMaxValues }
    \cup { Unrecognized(m) : m \in LoopMaxValues }

\* The workflows that the model also runs isolated (--worktree); the others
\* are run in place only
IsolatedWorkflows ==
    {NoLoopLoneParallel, LintAndTest, MissingAgentParallel,
     TestAndFix(1), TestAndFix(2), AuditAndFix}

\* ------------------------------------------------------------------------
\* The invocation layer: the shell step and the adapters of the registry
\* ------------------------------------------------------------------------

\* exitCode of an execa result when the process did not exit by itself
\* (killed on timeout, never spawned): undefined in the source
NoExitCode == -1

\* How the awaited execa call of an invocation can end, reject: false being
\* set.  "exit": the program exited with exitCode; "timeout": it was killed
\* when the timeout expired; "failed": it could not be spawned and the
\* failure is returned as a result; "throws": the call throws message.
Proc(kind, stdout, stderr, code, message) ==
    [kind |-> kind, stdout |-> stdout, stderr |-> stderr,
     exitCode |-> code, message |-> message]

NoProc == Proc("", "", "", NoExitCode, "")

\* The program runs to its end: an output and an exit code
ExitOutcomes ==
    { Proc("exit", o, "", e, "") : o \in {"APPROVED", "needs work"}, e \in {0, 2} }

\* Every way an invocation can end, the faults included
ProcessOutcomes ==
    { Proc("exit", "APPROVED", "", 0, ""),
      Proc("exit", "{\"result\":\"APPROVED\"}", "", 0, ""),
      Proc("exit", "", "error: boom", 2, ""),
      Proc("exit", "", "", 3, ""),
      Proc("timeout", "partial", "", NoExitCode, ""),
      Proc("timeout", "", "", NoExitCode, ""),
      Proc("failed", "", "", NoExitCode, ""),
      Proc("throws", "", "", NoExitCode, "spawn ENOENT") }

\* a || b on strings
Or(a, b) == IF a # "" THEN a ELSE b

\* [stdout, stderr].filter(Boolean).join("\n")
JoinOutputs(stdout, stderr) ==
    IF stdout # "" /\ stderr # "" THEN stdout \o "\n" \o stderr
    ELSE Or(stdout, stderr)

\* exitCode ?? 1
ExitCodeOr1(code) == IF code = NoExitCode THEN 1 ELSE code

\* An optional string field of an agent definition, "" when absent
Field(agentConfig, f) ==
    IF f \in DOMAIN agentConfig THEN agentConfig[f] ELSE ""

\* config.timeout ?? 10, as it is printed
TimeoutMinutes(agentConfig) ==
    IF "timeout" \in DOMAIN agentConfig
    THEN ToString(agentConfig.timeout) ELSE "10"

StepResult(output, code, timedOut) ==
    [output |-> output, exitCode |-> code, timedOut |-> timedOut]

\* executeOneStep, shell step: the result of the awaited sh -c
shellExecute(proc) ==
    IF proc.kind = "throws" THEN StepResult(proc.message, 1, FALSE)
    ELSE IF proc.kind = "timeout"
         THEN StepResult("[TIMED OUT] Shell command exceeded the 10 minute timeout.\n"
                             \o JoinOutputs(proc.stdout, proc.stderr), 1, TRUE)
         ELSE StepResult(JoinOutputs(proc.stdout, proc.stderr),
                         ExitCodeOr1(proc.exitCode), FALSE)

\* JSON.parse(raw) and parsed.result, for the documents {"result":"<text>"}
\* (text without quotes); any other raw output is used as it is
ParsedResult(raw) ==
    LET prefix == "{\"result\":\""
        suffix == "\"}"
        n      == Len(raw) - Len(prefix) - Len(suffix)
    IN  IF /\ n >= 0
           /\ startsWith(raw, prefix)
           /\ SliceFrom(raw, Len(raw) - Len(suffix)) = suffix
           /\ \A k \in 1..n : Char(raw, Len(prefix) + k) # "\""
        THEN SubSeq(raw, Len(prefix) + 1, Len(prefix) + n)
        ELSE raw

\* ClaudeCodeAdapter.execute
claudeExecute(proc, agentConfig) ==
    IF proc.kind = "throws" THEN StepResult(proc.message, 1, FALSE)
    ELSE IF proc.kind = "timeout"
         THEN StepResult("[TIMED OUT] Claude Code exceeded the "
                             \o TimeoutMinutes(agentConfig)
                             \o " minute timeout.\n"
                             \o Or(proc.stdout, proc.stderr), 1, TRUE)
         ELSE StepResult(ParsedResult(Or(proc.stdout, proc.stderr)),
                         ExitCodeOr1(proc.exitCode), FALSE)

\* CodexAdapter.execute
codexExecute(proc, agentConfig) ==
    IF proc.kind = "throws" THEN StepResult(proc.message, 1, FALSE)
    ELSE IF proc.kind = "timeout"
         THEN StepResult("[TIMED OUT] Codex exceeded the "
                             \o TimeoutMinutes(agentConfig)
                             \o " minute timeout.\n"
                             \o Or(proc.stdout, proc.stderr), 1, TRUE)
         ELSE StepResult(Or(proc.stdout, proc.stderr),
                         ExitCodeOr1(proc.exitCode), FALSE)

\* GeminiAdapter.execute
geminiExecute(proc, agentConfig) ==
    IF proc.kind = "throws" THEN StepResult(proc.message, 1, FALSE)
    ELSE IF proc.kind = "timeout"
         THEN StepResult("[TIMED OUT] Gemini CLI exceeded the "
                             \o TimeoutMinutes(agentConfig)
                             \o " minute timeout.\n"
                             \o Or(proc.stdout, proc.stderr), 1, TRUE)
         ELSE StepResult(Or(proc.stdout, proc.stderr),
                         ExitCodeOr1(proc.exitCode), FALSE)

\* The output of the custom adapter when the agent has no command
NoCommand ==
    "Custom agent requires a \"command\" field in config, e.g.: "
    \o "command: \"aider --yes-always --message {{prompt}}\""

\* CustomAdapter.execute (custom and aider): no command, no process; the
\* result of the awaited sh -c is returned without looking at timedOut
customExecute(proc, agentConfig) ==
    IF Field(agentConfig, "command") = "" THEN StepResult(NoCommand, 1, FALSE)
    ELSE IF proc.kind = "throws" THEN StepResult(proc.message, 1, FALSE)
    ELSE StepResult(Or(proc.stdout, proc.stderr),
                    ExitCodeOr1(proc.exitCode), FALSE)

\* getAdapter(agentConfig.cli).execute(...)
adapterExecute(proc, agentConfig) ==
    IF agentConfig.cli = "claude-code" THEN claudeExecute(proc, agentConfig)
    ELSE IF agentConfig.cli = "codex" THEN codexExecute(proc, agentConfig)
    ELSE IF agentConfig.cli = "gemini" THEN geminiExecute(proc, agentConfig)
    ELSE customExecute(proc, agentConfig)

\* What executeOneStep returns for a step whose process ends as proc
executeOneStep(step, cfg, proc) ==
    IF step.run # "" THEN shellExecute(proc)
    ELSE adapterExecute(proc, cfg.agents[step.agent])


\* ------------------------------------------------------------------------
\* The engine: state of one run (engine.ts, run)
\* ------------------------------------------------------------------------

VARIABLES
    call,        \* a call of resolveTemplate or evaluateCondition on its own
    returned,    \* << >> until the call returns, then << its value >>
    optWorktree, \* options.worktree: the run is asked to be isolated
    optDryRun,   \* options.dryRun: the plan is asked for, not the run
    installed,   \* the coding CLIs found on the host
    worktrees,   \* the agentloop/ branches that have a worktree
    status,      \* the status line of the summary, "" while none is printed
    report,      \* the run report written, NoReport while there is none
    config,      \* the workflow definition read from the YAML file
    stepGroups,  \* groupSteps(config.steps), computed once before the loops
    maxIterations, \* loopConfig?.max ?? 1
    reEntryIndex,  \* the re-entry point, computed once before the loops
    worktree,    \* worktreeInfo # null: the run has created its worktree
    pc,          \* where run() is: "load", "check", "worktree", "plan",
                 \* "group", "await", "commit", "rejected", "report", "done"
    iteration,   \* the iteration of the outer for loop, from 1
    gi,          \* 0-based index of the current group in stepGroups
    variables,   \* the variable store
    records,     \* the StepRecords of the report
    approved,
    members,     \* executeOneStep calls of the current group, one per member
    frozen,      \* the store as it was when the current group started
    invoked,     \* every invocation made so far: step, iteration, input
    dirty,       \* isolated run: the worktree has uncommitted changes
    commits,     \* every snapshotCommit call so far, with its outcome
    exitCode,    \* process exit status, -1 while the process runs
    cliPc,       \* build/review/fix command: "idle", "build", "review",
                 \* "fix", "summary", "exited"
    cliIteration, \* i of the main loop
    cliApproved, \* approved of the main loop
    stepsRun,
    calls,       \* the Build, Review and Fix invocations started so far
    cliExitCode  \* exit status of the command, -1 while it runs

pureVars == << call, returned >>

hostVars == << optWorktree, optDryRun, installed, worktrees >>

outVars == << status, report >>

engineVars ==
    << pureVars, hostVars, outVars, config, stepGroups, maxIterations, reEntryIndex,
       worktree, pc, iteration, gi, variables, records, approved, members,
       frozen, invoked, dirty, commits, exitCode >>

cliVars == << cliPc, cliIteration, cliApproved, stepsRun, calls, cliExitCode >>

vars == << engineVars, cliVars >>

\* No call of the template functions on their own
NoCall == [fn |-> ""]

PureIdle == call = NoCall /\ returned = << >>

\* The build/review/fix command is not running
CliIdle ==
    /\ cliPc = "idle"
    /\ cliIteration = 0
    /\ cliApproved = FALSE
    /\ stepsRun = 0
    /\ calls = << >>
    /\ cliExitCode = -1

group == stepGroups[gi + 1]

NoResult == [output |-> "", exitCode |-> -1, timedOut |-> FALSE]

\* The diff of the files one execution of a step changed: every execution
\* that changes files stands for one file of its own
ChangeOf(name, it) == "+++ " \o name \o "." \o ToString(it) \o "\n"

RECURSIVE ChangesOf(_, _)
ChangesOf(names, it) ==
    IF names = << >> THEN ""
    ELSE ChangeOf(Head(names), it) \o ChangesOf(Tail(names), it)

\* git diff a...b over the snapshot commits cs: what they changed, in order
RECURSIVE DiffOf(_)
DiffOf(cs) ==
    IF cs = << >> THEN ""
    ELSE (IF Head(cs).committed
          THEN ChangesOf(Head(cs).changes, Head(cs).iteration)
          ELSE "")
         \o DiffOf(Tail(cs))

\* git diff HEAD~1...HEAD: the changes of the last snapshot commit only
getGitDiffLastCommit ==
    IF worktree
    THEN LET made == { i \in 1..Len(commits) : commits[i].committed }
         IN  IF made = {} THEN "(no changes from base branch)"
             ELSE DiffOf(<< commits[CHOOSE i \in made :
                                       \A j \in made : j <= i] >>)
    ELSE "uncommitted changes"

\* getGitDiff(effectiveCwd, baseBranch).  Isolated run: the cumulative diff
\* baseBranch...HEAD, empty until the run has committed something.  Run in
\* place: the uncommitted changes of the user's checkout, whose content
\* the model does not track (one text stands for it).
getGitDiff ==
    IF worktree
    THEN Or(DiffOf(commits), "(no changes from base branch)")
    ELSE "uncommitted changes"

\* The context block executeOneStep appends to the prompt.  The code fences
\* of the block are three backquotes in the source; they are written ~~~
\* here, and take no part in template resolution.
contextBlock(step) ==
    IF step.context = << >> THEN ""
    ELSE "\n\n### Git Diff:\n~~~\n" \o getGitDiff \o "\n~~~"

\* executeOneStep up to its first await.  A shell step resolves its command
\* and spawns it; an agent step whose agent is not defined throws; an agent
\* step with a context awaits the context first; any other agent step
\* resolves its prompt and calls the adapter.
StartMember(step, store) ==
    IF step.run # ""
    THEN [pc |-> "running", input |-> resolveTemplate(step.run, store),
          proc |-> NoProc, result |-> NoResult, changed |-> FALSE]
    ELSE IF step.agent \notin DOMAIN config.agents
         THEN [pc |-> "thrown", input |-> "", proc |-> NoProc,
               result |-> NoResult, changed |-> FALSE]
         ELSE IF step.context # << >>
              THEN [pc |-> "ctx", input |-> "", proc |-> NoProc,
                    result |-> NoResult, changed |-> FALSE]
              ELSE [pc |-> "running",
                    input |-> resolveTemplate(step.prompt, store),
                    proc |-> NoProc, result |-> NoResult,
                    changed |-> FALSE]

\* The invocations that a sequence of freshly started members adds
RECURSIVE Started(_, _, _)
Started(steps, ms, it) ==
    IF steps = << >> THEN << >>
    ELSE (IF Head(ms).pc = "running"
          THEN << [step |-> Head(steps).name, iteration |-> it,
                   input |-> Head(ms).input] >>
          ELSE << >>) \o Started(Tail(steps), Tail(ms), it)

\* The store write that keeps the value a key already has
StoreResultAppendOnly(store, name, result) ==
    LET ko == "steps." \o name \o ".output"
        ke == "steps." \o name \o ".exitCode"
    IN  [k \in DOMAIN store \cup {ko, ke} |->
            IF k \in DOMAIN store THEN store[k]
            ELSE IF k = ko THEN result.output
            ELSE ToString(result.exitCode)]

\* variables[`steps.${name}.output`] = ...; variables[`...exitCode`] = ...
StoreResult(store, name, result) ==
    LET ko == "steps." \o name \o ".output"
        ke == "steps." \o name \o ".exitCode"
    IN  [k \in DOMAIN store \cup {ko, ke} |->
            IF k = ko THEN result.output
            ELSE IF k = ke THEN ToString(result.exitCode)
            ELSE store[k]]

\* The results of all members written to the store, in member order
RECURSIVE StoreResults(_, _, _)
StoreResults(store, steps, ms) ==
    IF steps = << >> THEN store
    ELSE StoreResults(StoreResult(store, Head(steps).name, Head(ms).result),
                      Tail(steps), Tail(ms))

StepRecord(step, it, result) ==
    [step |-> step.name, iteration |-> it,
     output |-> result.output, exitCode |-> result.exitCode]

\* The skip test without its effect: every group runs on every iteration
SkipsGroupNever(it, g) == FALSE

\* if (iteration > 1 && reEntryIndex > 0 && group.startIndex < reEntryIndex)
SkipsGroup(it, g) ==
    it > 1 /\ reEntryIndex > 0 /\ g.startIndex < reEntryIndex

\* if (group.parallel && group.steps.length > 1)
RunsInParallel(g) == g.parallel /\ Len(g.steps) > 1

\* ------------------------------------------------------------------------
\* Before the steps: validation, availability, isolation (engine.ts, run)
\* ------------------------------------------------------------------------

\* AgentSchema.cli, which is also the key set of the adapter registry
Clis == {"claude-code", "codex", "gemini", "aider", "custom"}

\* LoopSchema.on_max
OnMax == {"pause", "fail", "continue"}

\* StepSchema with its three refinements; an optional field that is absent
\* is the empty string (falsy, as in the refinements) or NoLoop
ValidStep(s) ==
    /\ ((s.agent # "" /\ s.prompt # "") \/ s.run # "")
    /\ ~(s.run # "" /\ s.agent # "")
    /\ ~(s.parallel /\ HasLoop(s))
    /\ (HasLoop(s) => s.loop.on_max \in OnMax)

\* WorkflowSchema.parse accepts the definition
Valid(cfg) ==
    /\ \A k \in DOMAIN cfg.agents : cfg.agents[k].cli \in Clis
    /\ Len(cfg.steps) >= 1
    /\ \A i \in 1..Len(cfg.steps) : ValidStep(cfg.steps[i])

\* Definitions that validation rejects: no step, a step that is both a
\* shell and an agent step, a parallel step that declares a loop
RejectedWorkflows ==
    { [name |-> "no-steps", agents |-> Agents, steps |-> << >>],
      [name |-> "both-modes", agents |-> Agents,
       steps |-> << [AgentStep("build", "builder", "Build.", << >>, FALSE)
                        EXCEPT !.run = "make"] >>],
      [name |-> "parallel-loop", agents |-> Agents,
       steps |-> << ShellStep("lint", "lint", FALSE),
                    WithLoop(ShellStep("test", "test", TRUE),
                             "steps.test.exitCode == 0", 2, "fail") >>] }

\* The CLIs of the agents that the steps use; a step whose agent key is not
\* in the agents map contributes nothing (config.agents[key]?.cli)
usedClis(cfg) ==
    { cfg.agents[cfg.steps[i].agent].cli :
          i \in { j \in 1..Len(cfg.steps) :
                    /\ cfg.steps[j].agent # ""
                    /\ cfg.steps[j].agent \in DOMAIN cfg.agents } }

\* The CLIs whose adapter looks for a program on the host; the custom
\* adapter (custom, aider) reports itself available always
Probed == {"claude-code", "codex", "gemini"}

\* adapter && (await adapter.isAvailable())
isAvailable(cli, host) ==
    cli \in Clis /\ (cli \in Probed => cli \in host)

\* checkAdapters(clis).missing
missing(clis, host) == { c \in clis : ~isAvailable(c, host) }

\* The hosts a definition is run on: everything installed, or one of the
\* CLIs it uses not installed
Hosts(cfg) ==
    {Probed} \cup { Probed \ {c} : c \in usedClis(cfg) \cap Probed }

\* What the run report says (generateReport)
NoReport == [workflow |-> "", status |-> "", records |-> << >>]

generateReport(workflowName, recs, ok) ==
    [workflow |-> workflowName,
     status |-> IF ok THEN "Approved" ELSE "Max iterations reached",
     records |-> recs]

\* The status line of logger.summary
summary(ok, hasLoop) ==
    IF ~hasLoop THEN "COMPLETE"
    ELSE IF ok THEN "APPROVED" ELSE "MAX ITERATIONS REACHED"

\* The exit status after the report: process.exit(1) when the run is not
\* approved and the policy is fail, the normal end (0) otherwise
exitStatus(ok, on_max) ==
    IF ~ok /\ on_max = "fail" THEN 1 ELSE 0

\* The branch of the worktree that createWorktree adds (the run id is
\* random in the code; one run, one id)
RunBranch == "agentloop/run-1"

\* One agent step on the adapter of cli, then a shell step
FaultWorkflow(cli, command) ==
    [name |-> "fault-" \o cli,
     agents |-> [k \in {"worker"} |-> [cli |-> cli, command |-> command]],
     steps |-> << AgentStep("work", "worker", "Do the work.", << >>, FALSE),
                  ShellStep("after", "echo {{ steps.work.exitCode }}", FALSE) >>]

\* The runs on which the model follows the faults of the invocation layer:
\* one per CLI of the registry, and a custom agent without a command
FaultWorkflows ==
    { FaultWorkflow(cli, IF cli \in {"aider", "custom"}
                         THEN "tool --message {{prompt}}" ELSE "") :
          cli \in Clis }
    \cup { FaultWorkflow("custom", "") }

\* How the invocations of a run can end
Outcomes(cfg) ==
    IF cfg \in FaultWorkflows THEN ProcessOutcomes ELSE ExitOutcomes

\* The state of run() when it is called: nothing is planned, nothing has
\* run, no worktree of an earlier run is left on the host
EngineStart ==
    /\ worktrees = {}
    /\ status = ""
    /\ report = NoReport
    /\ worktree = FALSE
    /\ stepGroups = << >>
    /\ maxIterations = 0
    /\ reEntryIndex = 0
    /\ iteration = 1
    /\ gi = 0
    /\ variables = [k \in {"feature_spec"} |-> "Add a health endpoint"]
    /\ records = << >>
    /\ approved = FALSE
    /\ members = << >>
    /\ frozen = variables
    /\ invoked = << >>
    /\ dirty = FALSE
    /\ commits = << >>
    /\ exitCode = -1

\* agentloop run: a definition file, a host, with or without --worktree
Init ==
    /\ PureIdle
    /\ config \in Workflows \cup RejectedWorkflows \cup FaultWorkflows
    /\ optWorktree \in (IF config \in IsolatedWorkflows THEN BOOLEAN ELSE {FALSE})
    /\ optDryRun \in BOOLEAN
    /\ installed \in Hosts(config)
    /\ pc = "load"
    /\ EngineStart
    /\ CliIdle

\* readFile, parseYaml, WorkflowSchema.parse: a rejected definition throws,
\* and the CLI handler exits with status 1
Load ==
    /\ pc = "load"
    /\ IF Valid(config)
       THEN pc' = "check" /\ exitCode' = exitCode
       ELSE pc' = "done" /\ exitCode' = 1
    /\ UNCHANGED << pureVars, cliVars, hostVars, outVars, config,
                    stepGroups, maxIterations, reEntryIndex, worktree,
                    iteration, gi, variables, records, approved, members,
                    frozen, invoked, dirty, commits >>

\* The availability check with the worktree created before the dry-run
\* test
CheckAdaptersWorktreeFirst ==
    /\ pc = "check"
    /\ IF missing(usedClis(config), installed) # {}
       THEN pc' = "done" /\ exitCode' = 1
       ELSE /\ pc' = IF optWorktree THEN "worktree"
                     ELSE IF optDryRun THEN "dryrun" ELSE "plan"
            /\ exitCode' = exitCode
    /\ UNCHANGED << pureVars, cliVars, hostVars, outVars, config,
                    stepGroups, maxIterations, reEntryIndex, worktree,
                    iteration, gi, variables, records, approved, members,
                    frozen, invoked, dirty, commits >>

\* The availability check: process.exit(1) when a used CLI is missing;
\* otherwise the dry run, the worktree of an isolated run, or the run
CheckAdapters ==
    /\ pc = "check"
    /\ IF missing(usedClis(config), installed) # {}
       THEN pc' = "done" /\ exitCode' = 1
       ELSE /\ pc' = IF optDryRun THEN "dryrun"
                     ELSE IF optWorktree THEN "worktree" ELSE "plan"
            /\ exitCode' = exitCode
    /\ UNCHANGED << pureVars, cliVars, hostVars, outVars, config,
                    stepGroups, maxIterations, reEntryIndex, worktree,
                    iteration, gi, variables, records, approved, members,
                    frozen, invoked, dirty, commits >>

\* What the dry run prints in place of a status
DryRunBanner == "DRY RUN"

\* if (options.dryRun): the plan is printed and run() returns
DryRun ==
    /\ pc = "dryrun"
    /\ pc' = "done"
    /\ status' = DryRunBanner
    /\ exitCode' = 0
    /\ UNCHANGED << pureVars, cliVars, hostVars, report, config,
                    stepGroups, maxIterations, reEntryIndex, worktree,
                    iteration, gi, variables, records, approved, members,
                    frozen, invoked, dirty, commits >>

\* createWorktree(cwd): a new branch with its worktree, or a throw (not a
\* git repository, no base branch, git worktree add fails)
CreateWorktree ==
    /\ pc = "worktree"
    /\ \E created \in BOOLEAN :
          IF created
          THEN /\ worktrees' = worktrees \cup {RunBranch}
               /\ worktree' = TRUE
               /\ pc' = "plan"
               /\ exitCode' = exitCode
          ELSE /\ pc' = "done"
               /\ exitCode' = 1
               /\ UNCHANGED << worktrees, worktree >>
    /\ UNCHANGED << pureVars, cliVars, optWorktree, optDryRun, installed, outVars,
                    config,
                    stepGroups, maxIterations, reEntryIndex,
                    iteration, gi, variables, records, approved, members,
                    frozen, invoked, dirty, commits >>

\* What git says when it cannot remove a worktree
GitRemoveError == "fatal: failed to delete the working tree"

\* removeWorktree that reports a failed branch deletion as a failure
removeWorktreeStrict(checkoutRemoved, branchDeleted) ==
    IF ~checkoutRemoved
    THEN [removed |-> FALSE, thrown |-> FALSE,
          error |-> "Failed to remove worktree: " \o GitRemoveError]
    ELSE IF ~branchDeleted
         THEN [removed |-> FALSE, thrown |-> FALSE,
               error |-> "Failed to delete branch"]
         ELSE [removed |-> TRUE, thrown |-> FALSE, error |-> ""]

\* removeWorktree(cwd, worktreePath, branch), given whether git worktree
\* remove --force and git branch -D succeed: the first failure is returned,
\* the second is swallowed, and nothing is thrown
removeWorktree(checkoutRemoved, branchDeleted) ==
    IF ~checkoutRemoved
    THEN [removed |-> FALSE, thrown |-> FALSE,
          error |-> "Failed to remove worktree: " \o GitRemoveError]
    ELSE [removed |-> TRUE, thrown |-> FALSE, error |-> ""]

RemoveCall(branch, checkoutRemoved, branchDeleted) ==
    [fn |-> "removeWorktree", branch |-> branch,
     checkoutRemoved |-> checkoutRemoved, branchDeleted |-> branchDeleted]

\* agentloop cleanup, run after the run has ended: removeWorktree for the
\* listed worktrees; a removal that fails leaves its worktree, and the
\* branch is deleted only after the checkout is removed
Cleanup ==
    /\ pc = "done"
    /\ \E branch \in worktrees, checkoutRemoved \in BOOLEAN :
          \E branchDeleted \in (IF checkoutRemoved THEN BOOLEAN ELSE {FALSE}) :
              /\ call' = RemoveCall(branch, checkoutRemoved, branchDeleted)
              /\ returned' = << removeWorktree(checkoutRemoved, branchDeleted) >>
              /\ worktrees' = IF checkoutRemoved THEN worktrees \ {branch}
                              ELSE worktrees
    /\ UNCHANGED << cliVars, optWorktree, optDryRun, installed, outVars,
                    config,
                    stepGroups, maxIterations, reEntryIndex, worktree, pc,
                    iteration, gi, variables, records, approved, members,
                    frozen, invoked, dirty, commits, exitCode >>

\* The loop configuration, the groups and the re-entry point are computed
\* once, before the loops; the outer loop is entered when 1 <= maxIterations
Plan ==
    /\ pc = "plan"
    /\ stepGroups' = groupSteps(config.steps)
    /\ maxIterations' = MaxIterationsOf(config)
    /\ reEntryIndex' = ReEntryIndex(config)
    /\ pc' = IF 1 <= MaxIterationsOf(config) THEN "group" ELSE "report"
    /\ UNCHANGED << pureVars, cliVars, hostVars, outVars, config,
                    worktree, iteration, gi, variables, records,
                    approved, members, frozen, invoked, dirty, commits,
                    exitCode >>

\* The end of a group's body that ends the loops on a non-zero exit code
NextGroupFailFast ==
    IF \E m \in 1..Len(members) : members[m].result.exitCode > 0
    THEN pc' = "report" /\ gi' = gi /\ iteration' = iteration
    ELSE IF gi + 1 < Len(stepGroups)
         THEN pc' = "group" /\ gi' = gi + 1 /\ iteration' = iteration
         ELSE IF iteration + 1 <= maxIterations
              THEN pc' = "group" /\ gi' = 0 /\ iteration' = iteration + 1
              ELSE pc' = "report" /\ gi' = gi /\ iteration' = iteration

\* The end of a group's body: the next group, else the next iteration, else
\* the end of the loops
NextGroup ==
    IF gi + 1 < Len(stepGroups)
    THEN pc' = "group" /\ gi' = gi + 1 /\ iteration' = iteration
    ELSE IF iteration + 1 <= maxIterations
         THEN pc' = "group" /\ gi' = 0 /\ iteration' = iteration + 1
         ELSE pc' = "report" /\ gi' = gi /\ iteration' = iteration

\* A group before the re-entry point on a later iteration: continue
SkipGroup ==
    /\ pc = "group"
    /\ SkipsGroup(iteration, group)
    /\ NextGroup
    /\ UNCHANGED << pureVars, cliVars, hostVars, outVars, config,
                    stepGroups, maxIterations, reEntryIndex,
                    worktree, variables, records, approved, members,
                    frozen, invoked, dirty, commits, exitCode >>

\* Every member's executeOneStep is called, in order, against the store;
\* run() then awaits them all (Promise.all, or the single await)
StartGroup ==
    /\ pc = "group"
    /\ ~SkipsGroup(iteration, group)
    /\ LET ms == [m \in 1..Len(group.steps) |->
                     StartMember(group.steps[m], variables)]
       IN  /\ members' = ms
           /\ invoked' = invoked \o Started(group.steps, ms, iteration)
           /\ pc' = IF \E m \in 1..Len(ms) : ms[m].pc = "thrown"
                    THEN "rejected" ELSE "await"
    /\ frozen' = variables
    /\ UNCHANGED << pureVars, cliVars, hostVars, outVars, config,
                    stepGroups, maxIterations, reEntryIndex,
                    worktree, iteration, gi, variables, records,
                    approved, dirty, commits, exitCode >>

\* An agent step's context is read; its prompt is resolved against the
\* store and the adapter is called
ResolveContext(m) ==
    /\ pc = "await"
    /\ members[m].pc = "ctx"
    /\ LET step  == group.steps[m]
           input == resolveTemplate(step.prompt \o contextBlock(step), variables)
       IN  /\ members' = [members EXCEPT ![m].pc = "running", ![m].input = input]
           /\ invoked' = Append(invoked, [step |-> step.name,
                                          iteration |-> iteration,
                                          input |-> input])
    /\ UNCHANGED << pureVars, cliVars, hostVars, outVars, config,
                    stepGroups, maxIterations, reEntryIndex,
                    worktree, pc, iteration, gi, variables, records,
                    approved, frozen, dirty, commits, exitCode >>

\* A member's result written to the store as soon as the member returns
FinishMemberWritesStore(m) ==
    /\ pc = "await"
    /\ members[m].pc = "running"
    /\ \E proc \in Outcomes(config), changed \in BOOLEAN :
          LET r == executeOneStep(group.steps[m], config, proc)
          IN  /\ members' = [members EXCEPT ![m].pc = "done",
                                            ![m].proc = proc, ![m].result = r,
                                            ![m].changed = worktree /\ changed]
              /\ dirty' = IF worktree THEN dirty \/ changed ELSE dirty
              /\ variables' = StoreResult(variables, group.steps[m].name, r)
    /\ UNCHANGED << pureVars, cliVars, hostVars, outVars, config,
                    stepGroups, maxIterations, reEntryIndex,
                    worktree, pc, iteration, gi, records,
                    approved, frozen, invoked, commits, exitCode >>

\* The awaited process of a member ends, with or without changes to the
\* files of the working directory, and executeOneStep returns its result.
\* Which member changed files is kept for the isolated run, whose changes
\* the snapshot commits and the diff context are made of.
FinishMember(m) ==
    /\ pc = "await"
    /\ members[m].pc = "running"
    /\ \E proc \in Outcomes(config), changed \in BOOLEAN :
          /\ members' = [members EXCEPT
                            ![m].pc = "done", ![m].proc = proc,
                            ![m].result = executeOneStep(group.steps[m],
                                                         config, proc),
                            ![m].changed = worktree /\ changed]
          /\ dirty' = IF worktree THEN dirty \/ changed ELSE dirty
    /\ UNCHANGED << pureVars, cliVars, hostVars, outVars, config,
                    stepGroups, maxIterations, reEntryIndex,
                    worktree, pc, iteration, gi, variables, records,
                    approved, frozen, invoked, commits, exitCode >>

AllDone == \A m \in 1..Len(members) : members[m].pc = "done"

\* records.push(...) for every member, in member order
RECURSIVE RecordsOf(_, _, _)
RecordsOf(steps, ms, it) ==
    IF steps = << >> THEN << >>
    ELSE << StepRecord(Head(steps), it, Head(ms).result) >>
         \o RecordsOf(Tail(steps), Tail(ms), it)

\* Promise.all has resolved: all results go to the store and to the
\* records, then the batch is committed (isolated run) or the group ends
CollectParallel ==
    /\ pc = "await"
    /\ RunsInParallel(group)
    /\ AllDone
    /\ variables' = StoreResults(variables, group.steps, members)
    /\ records' = records \o RecordsOf(group.steps, members, iteration)
    /\ IF worktree
       THEN pc' = "commit" /\ UNCHANGED << iteration, gi >>
       ELSE NextGroup
    /\ UNCHANGED << pureVars, cliVars, hostVars, outVars, config,
                    stepGroups, maxIterations, reEntryIndex,
                    worktree, approved, members, frozen, invoked,
                    dirty, commits, exitCode >>

\* The names of the steps whose execution changed files, in step order
RECURSIVE ChangedNames(_, _)
ChangedNames(names, ms) ==
    IF names = << >> THEN << >>
    ELSE (IF Head(ms).changed THEN << Head(names) >> ELSE << >>)
         \o ChangedNames(Tail(names), Tail(ms))

\* snapshotCommit with git commit --allow-empty
CommitAttemptAllowEmpty(names) ==
    [names |-> names, iteration |-> iteration, committed |-> TRUE,
     changes |-> ChangedNames(names, members)]

\* snapshotCommit: git add -A, then a commit unless the tree is clean.  The
\* git commands are taken to succeed: the worktree is a fresh checkout that
\* createWorktree has just made.
CommitAttempt(names) ==
    [names |-> names, iteration |-> iteration, committed |-> dirty,
     changes |-> ChangedNames(names, members)]

StepNames(steps) == [i \in 1..Len(steps) |-> steps[i].name]

CommitParallel ==
    /\ pc = "commit"
    /\ RunsInParallel(group)
    /\ commits' = Append(commits, CommitAttempt(StepNames(group.steps)))
    /\ dirty' = FALSE
    /\ NextGroup
    /\ UNCHANGED << pureVars, cliVars, hostVars, outVars, config,
                    stepGroups, maxIterations, reEntryIndex,
                    worktree, variables, records, approved, members,
                    frozen, invoked, exitCode >>

\* The tail of the sequential branch that ends the loops when the
\* condition is false on the last iteration
AfterSequentialStopsExhausted(store) ==
    LET step == group.steps[1]
    IN  /\ records' = Append(records, StepRecord(step, iteration, members[1].result))
        /\ IF HasLoop(step) /\ evaluateCondition(step.loop.until, store)
           THEN /\ approved' = TRUE
                /\ pc' = "report"
                /\ UNCHANGED << iteration, gi >>
           ELSE /\ approved' = approved
                /\ IF HasLoop(step) /\ iteration = maxIterations
                   THEN pc' = "report" /\ UNCHANGED << iteration, gi >>
                   ELSE NextGroup

\* The tail of the sequential branch without the break on approval
AfterSequentialNoBreak(store) ==
    LET step == group.steps[1]
    IN  /\ records' = Append(records, StepRecord(step, iteration, members[1].result))
        /\ approved' = (approved \/ (HasLoop(step)
                                     /\ evaluateCondition(step.loop.until, store)))
        /\ NextGroup

\* The tail of the sequential branch: the record, then the loop condition
\* of the step against the store `store`
AfterSequential(store) ==
    LET step == group.steps[1]
    IN  /\ records' = Append(records, StepRecord(step, iteration, members[1].result))
        /\ IF HasLoop(step) /\ evaluateCondition(step.loop.until, store)
           THEN /\ approved' = TRUE
                /\ pc' = "report"
                /\ UNCHANGED << iteration, gi >>
           ELSE /\ approved' = approved
                /\ NextGroup

\* The awaited executeOneStep of a sequential group has returned
CollectSequential ==
    /\ pc = "await"
    /\ ~RunsInParallel(group)
    /\ AllDone
    /\ variables' = StoreResult(variables, group.steps[1].name, members[1].result)
    /\ IF worktree
       THEN /\ pc' = "commit"
            /\ UNCHANGED << iteration, gi, records, approved >>
       ELSE AfterSequential(variables')
    /\ UNCHANGED << pureVars, cliVars, hostVars, outVars, config,
                    stepGroups, maxIterations, reEntryIndex,
                    worktree, members, frozen, invoked, dirty,
                    commits, exitCode >>

CommitSequential ==
    /\ pc = "commit"
    /\ ~RunsInParallel(group)
    /\ commits' = Append(commits, CommitAttempt(StepNames(group.steps)))
    /\ dirty' = FALSE
    /\ AfterSequential(variables)
    /\ UNCHANGED << pureVars, cliVars, hostVars, outVars, config,
                    stepGroups, maxIterations, reEntryIndex,
                    worktree, variables, members, frozen, invoked,
                    exitCode >>

\* The end of a run on a thrown error that also tears the worktree down
RunRejectedRemovesWorktree ==
    /\ pc = "rejected"
    /\ pc' = "done"
    /\ exitCode' = 1
    /\ worktrees' = worktrees \ {RunBranch}
    /\ UNCHANGED << pureVars, cliVars, optWorktree, optDryRun, installed, outVars,
                    config,
                    stepGroups, maxIterations, reEntryIndex,
                    worktree, iteration, gi, variables, records,
                    approved, members, frozen, invoked, dirty, commits >>

\* A member threw (agent not defined): the await rejects at once, run()
\* ends through its finally block and the CLI handler exits with status 1
RunRejected ==
    /\ pc = "rejected"
    /\ pc' = "done"
    /\ exitCode' = 1
    /\ UNCHANGED << pureVars, cliVars, hostVars, outVars, config,
                    stepGroups, maxIterations, reEntryIndex,
                    worktree, iteration, gi, variables, records,
                    approved, members, frozen, invoked, dirty, commits >>

\* Summary and report; process.exit(1) under on_max: fail when not approved
Report ==
    /\ pc = "report"
    /\ pc' = "done"
    /\ status' = summary(approved, loopConfig(config) # NoLoop)
    /\ report' = generateReport(config.name, records, approved)
    /\ exitCode' = exitStatus(approved, loopConfig(config).on_max)
    /\ UNCHANGED << pureVars, cliVars, hostVars, config,
                    stepGroups, maxIterations, reEntryIndex,
                    worktree, iteration, gi, variables, records,
                    approved, members, frozen, invoked, dirty, commits >>

Next ==
    \/ Load
    \/ CheckAdapters
    \/ DryRun
    \/ CreateWorktree
    \/ Plan
    \/ SkipGroup
    \/ StartGroup
    \/ \E m \in 1..Len(members) : ResolveContext(m)
    \/ \E m \in 1..Len(members) : FinishMember(m)
    \/ CollectParallel
    \/ CommitParallel
    \/ CollectSequential
    \/ CommitSequential
    \/ RunRejected
    \/ Report
    \/ Cleanup

Spec == Init /\ [][Next]_vars

\* ------------------------------------------------------------------------
\* The build/review/fix command (cli.ts)
\* ------------------------------------------------------------------------

MAX_ITERATIONS == 5

LowerChar(c) ==
    IF \E i \in 1..26 : Char(UpperAlpha, i) = c
    THEN Char(LowerAlpha, CHOOSE i \in 1..26 : Char(UpperAlpha, i) = c)
    ELSE c

RECURSIVE toLowerCase(_)
toLowerCase(s) ==
    IF s = "" THEN "" ELSE LowerChar(Char(s, 1)) \o toLowerCase(SliceFrom(s, 1))

\* output.split(/\r?\n/): the set of the lines of a text.  A carriage
\* return before the line feed stays at the end of the line here; the
\* callers trim every line, which removes it.
RECURSIVE Lines(_)
Lines(s) ==
    LET n == RunLen(s, CharsOf(s) \ {"\n"})
    IN  IF n = Len(s) THEN {s}
        ELSE {SubSeq(s, 1, n)} \cup Lines(SliceFrom(s, n + 1))

isApprovedReview(output) ==
    \E line \in Lines(output) : toUpperCase(trim(line)) = "APPROVED"

\* pattern.test(text) for /\bword\b/ (rightEdge) and /\bword/ (otherwise)
HasWord(text, word, rightEdge) ==
    \E i \in 1..(Len(text) - Len(word) + 1) :
        /\ SubSeq(text, i, i + Len(word) - 1) = word
        /\ (i = 1 \/ Char(text, i - 1) \notin WordChars)
        /\ rightEdge =>
              \/ i + Len(word) > Len(text)
              \/ Char(text, i + Len(word)) \notin WordChars

positiveSignals ==
    { "no issues found", "no critical issues", "no actionable findings",
      "looks good", "lgtm", "ship it" }

\* The alternatives of the blockingHints patterns that end with \b
blockingHints ==
    { "bug", "crash", "security", "exploit", "regression", "incorrect",
      "broken", "fail", "failing", "failed", "exception", "panic",
      "data loss", "auth", "authentication", "authorization",
      "null pointer", "memory leak", "deadlock", "race condition",
      "sql injection", "xss", "csrf", "compile error", "build fails",
      "build failed" }

nonBlockingHints ==
    { "nit", "nits", "nitpick", "nitpicks", "suggestion", "optional",
      "minor", "style", "stylistic", "format", "formatting", "naming",
      "readability", "polish", "doc", "docs", "comment", "consider",
      "could", "nice to have" }

\* The classification with the blocking patterns tried before the positive
\* signals
hasBlockingFindingsBlockingFirst(output) ==
    LET normalized == toLowerCase(output)
    IN  IF \/ \E w \in blockingHints : HasWord(normalized, w, TRUE)
           \/ HasWord(normalized, "vulnerab", FALSE)
        THEN TRUE
        ELSE IF \E signal \in positiveSignals : includes(normalized, signal)
             THEN FALSE
             ELSE IF \E w \in nonBlockingHints : HasWord(normalized, w, TRUE)
                  THEN FALSE
                  ELSE TRUE

hasBlockingFindings(output) ==
    LET normalized == toLowerCase(output)
    IN  IF \E signal \in positiveSignals : includes(normalized, signal)
        THEN FALSE
        ELSE IF \/ \E w \in blockingHints : HasWord(normalized, w, TRUE)
                \/ HasWord(normalized, "vulnerab", FALSE)
             THEN TRUE
             ELSE IF \E w \in nonBlockingHints : HasWord(normalized, w, TRUE)
                  THEN FALSE
                  ELSE TRUE

\* What the reviewer can print
ReviewOutputs ==
    { "APPROVED",
      "The change is fine.\r\n  approved  \r\n",
      "NOT APPROVED: the login test is failing",
      "Found a bug in the session handler",
      "Consider renaming the helper",
      "LGTM",
      "The debugger output is incomplete" }

\* What an invocation can return: output and exit code (RunResult)
ReviewResults ==
    { [output |-> o, exitCode |-> e] : o \in ReviewOutputs, e \in {0, 1, 2} }

ClaudeResults ==
    { [output |-> o, exitCode |-> e] : o \in {"Done."}, e \in {0, 1, 2} }

prompt == "add a /health endpoint"

fixPrompt(reviewOutput) ==
    "Fix the following BLOCKING issues found during code review: "
    \o reviewOutput \o " The original request was: " \o prompt

\* The build/review/fix process between two awaits.  `calls` holds every
\* invocation started so far; the exit code of the last one is -1 while
\* it runs.
CliCall(name, it, input) ==
    [name |-> name, iteration |-> it, input |-> input,
     output |-> "", exitCode |-> -1]

Returned(r) ==
    [calls EXCEPT ![Len(calls)].output = r.output,
                  ![Len(calls)].exitCode = r.exitCode]

\* The process is started with a prompt: Build is invoked on iteration 1
CliInit ==
    /\ PureIdle
    /\ config = BuildAuditFix
    /\ optWorktree = FALSE
    /\ optDryRun = FALSE
    /\ installed = Probed
    /\ pc = "plan"
    /\ EngineStart
    /\ cliPc = "build"
    /\ cliIteration = 1
    /\ cliApproved = FALSE
    /\ stepsRun = 0
    /\ calls = << CliCall("Build", 1, prompt) >>
    /\ cliExitCode = -1

\* process.exit(1) after a failed invocation
Fatal ==
    /\ cliPc' = "exited"
    /\ cliExitCode' = 1
    /\ UNCHANGED << cliIteration, cliApproved >>

\* runClaude(prompt) returns: a non-zero exit code is fatal, otherwise
\* Review is invoked
BuildReturns ==
    /\ cliPc = "build"
    /\ \E r \in ClaudeResults :
          /\ stepsRun' = stepsRun + 1
          /\ IF r.exitCode # 0
             THEN calls' = Returned(r) /\ Fatal
             ELSE /\ calls' = Append(Returned(r), CliCall("Review", cliIteration, ""))
                  /\ cliPc' = "review"
                  /\ UNCHANGED << cliIteration, cliApproved, cliExitCode >>
    /\ UNCHANGED engineVars

\* The review outcome without the test for the last iteration
ReviewPassedNoLimit(r) ==
    IF isApprovedReview(r.output) \/ ~hasBlockingFindings(r.output)
    THEN /\ calls' = Returned(r)
         /\ cliApproved' = TRUE
         /\ cliPc' = "summary"
         /\ UNCHANGED << cliIteration, cliExitCode >>
    ELSE /\ calls' = Append(Returned(r),
                            CliCall("Fix", cliIteration + 1,
                                    fixPrompt(r.output)))
         /\ cliPc' = "fix"
         /\ UNCHANGED << cliIteration, cliApproved, cliExitCode >>

\* Review has not failed: approved, treated as approved, out of iterations,
\* or Fix is invoked with the review output
ReviewPassed(r) ==
    IF isApprovedReview(r.output) \/ ~hasBlockingFindings(r.output)
    THEN /\ calls' = Returned(r)
         /\ cliApproved' = TRUE
         /\ cliPc' = "summary"
         /\ UNCHANGED << cliIteration, cliExitCode >>
    ELSE IF cliIteration = MAX_ITERATIONS
         THEN /\ calls' = Returned(r)
              /\ cliPc' = "summary"
              /\ UNCHANGED << cliIteration, cliApproved, cliExitCode >>
         ELSE /\ calls' = Append(Returned(r),
                                 CliCall("Fix", cliIteration + 1,
                                         fixPrompt(r.output)))
              /\ cliPc' = "fix"
              /\ UNCHANGED << cliIteration, cliApproved, cliExitCode >>

\* Review classified before its exit code is looked at
ReviewReturnsLenient ==
    /\ cliPc = "review"
    /\ \E r \in ReviewResults :
          /\ stepsRun' = stepsRun + 1
          /\ IF r.exitCode # 0 /\ ~isApprovedReview(r.output)
             THEN calls' = Returned(r) /\ Fatal
             ELSE ReviewPassed(r)
    /\ UNCHANGED engineVars

\* runCodexReview() returns
ReviewReturns ==
    /\ cliPc = "review"
    /\ \E r \in ReviewResults :
          /\ stepsRun' = stepsRun + 1
          /\ IF r.exitCode # 0
             THEN calls' = Returned(r) /\ Fatal
             ELSE ReviewPassed(r)
    /\ UNCHANGED engineVars

\* runClaude(fixPrompt) returns: a non-zero exit code is fatal, otherwise
\* the next iteration invokes Review
FixReturns ==
    /\ cliPc = "fix"
    /\ \E r \in ClaudeResults :
          /\ stepsRun' = stepsRun + 1
          /\ IF r.exitCode # 0
             THEN calls' = Returned(r) /\ Fatal
             ELSE /\ calls' = Append(Returned(r),
                                     CliCall("Review", cliIteration + 1, ""))
                  /\ cliIteration' = cliIteration + 1
                  /\ cliPc' = "review"
                  /\ UNCHANGED << cliApproved, cliExitCode >>
    /\ UNCHANGED engineVars

\* An invocation throws instead of returning: the catch block of the main
\* loop prints the message and calls process.exit(1)
ExecutionError ==
    /\ cliPc \in {"build", "review", "fix"}
    /\ Fatal
    /\ UNCHANGED << stepsRun, calls >>
    /\ UNCHANGED engineVars

\* The summary followed by a normal end of the process
SummaryExitsZero ==
    /\ cliPc = "summary"
    /\ cliPc' = "exited"
    /\ cliExitCode' = 0
    /\ UNCHANGED << cliIteration, cliApproved, stepsRun, calls >>
    /\ UNCHANGED engineVars

\* After the loop: the summary, and process.exit(1) when not approved
Summary ==
    /\ cliPc = "summary"
    /\ cliPc' = "exited"
    /\ cliExitCode' = IF cliApproved THEN 0 ELSE 1
    /\ UNCHANGED << cliIteration, cliApproved, stepsRun, calls >>
    /\ UNCHANGED engineVars

CliNext ==
    \/ BuildReturns
    \/ ReviewReturns
    \/ FixReturns
    \/ ExecutionError
    \/ Summary

SpecCli == CliInit /\ [][CliNext]_vars


\* ------------------------------------------------------------------------
\* The plan of a run on generated workflows: grouping and re-entry point
\* ------------------------------------------------------------------------

\* Step names of the generated workflows: the characters a name may have
\* in a loop condition's prefix include the hyphen and the dot
StepNamePool == << "build", "code-review", "unit.test", "fix", "deploy" >>

PlanConditions ==
    { "steps." \o StepNamePool[i] \o ".output contains APPROVED" :
          i \in 1..MaxSteps }
    \cup { "steps." \o StepNamePool[i] \o ".exitCode == 0" : i \in 1..MaxSteps }
    \cup { "steps.ghost.output contains APPROVED", "tests pass" }

\* n steps; step loopAt (none when 0) declares the loop and is sequential,
\* as WorkflowSchema requires; the others carry the parallel flags par
GenSteps(n, par, loopAt, until) ==
    [i \in 1..n |->
        IF i = loopAt
        THEN WithLoop(ShellStep(StepNamePool[i], "run", FALSE), until,
                      MaxIterations, "fail")
        ELSE ShellStep(StepNamePool[i], "run", par[i])]

GenWorkflows ==
    UNION { UNION { { [name |-> "generated", agents |-> Agents,
                       steps |-> GenSteps(n, par, loopAt, until)] :
                         loopAt \in 0..n, until \in PlanConditions } :
                    par \in [1..n -> BOOLEAN] } :
            n \in 1..MaxSteps }

PlanInit ==
    /\ PureIdle
    /\ config \in GenWorkflows
    /\ optWorktree = FALSE
    /\ optDryRun = FALSE
    /\ installed = Probed
    /\ pc = "plan"
    /\ EngineStart
    /\ CliIdle

SpecPlan == PlanInit /\ [][Plan]_vars


\* ------------------------------------------------------------------------
\* Validation on generated definitions
\* ------------------------------------------------------------------------

\* Shapes of a candidate step: a shell step, an agent step, a step with
\* both run and agent, a step with neither, a parallel step with a loop
StepShapes == {"shell", "agent", "both", "neither", "parallel-loop"}

CandidateStep(name, shape) ==
    IF shape = "shell" THEN ShellStep(name, "make " \o name, FALSE)
    ELSE IF shape = "agent"
         THEN AgentStep(name, "builder", "Do " \o name, << >>, FALSE)
    ELSE IF shape = "both"
         THEN [AgentStep(name, "builder", "Do " \o name, << >>, FALSE)
                  EXCEPT !.run = "make " \o name]
    ELSE IF shape = "neither"
         THEN AgentStep(name, "builder", "", << >>, FALSE)
    ELSE WithLoop(ShellStep(name, "make " \o name, TRUE),
                  "steps." \o name \o ".exitCode == 0", MaxIterations, "fail")

\* Definitions of up to MaxSteps steps with names drawn from the first two
\* names of the pool, repetitions included, and any shapes
Candidates ==
    UNION { { [name |-> "candidate", agents |-> Agents,
               steps |-> [i \in 1..n |->
                             CandidateStep(StepNamePool[names[i]], shapes[i])]] :
                  names \in [1..n -> 1..2],
                  shapes \in [1..n -> StepShapes] } :
            n \in 0..MaxSteps }

ValidateInit ==
    /\ PureIdle
    /\ config \in Candidates
    /\ optWorktree = FALSE
    /\ optDryRun = FALSE
    /\ installed = Probed
    /\ pc = "load"
    /\ EngineStart
    /\ CliIdle

SpecValidate == ValidateInit /\ [][Load]_vars


\* ------------------------------------------------------------------------
\* The template functions on their own (utils/template.ts)
\* ------------------------------------------------------------------------

\* Templates: the ones of the tests, a token with a hyphenated key, tokens
\* next to stray braces, text without tokens
Templates ==
    { "Hello {{ name }}",
      "Result: {{ steps.build.output }}",
      "{{ steps.security-audit.output }}",
      "{{ unknown }}",
      "{{ a }} and {{ b }}",
      "{{name}} {{  name  }}",
      "{{ {{ unknown }} }}",
      "{{{{ a }} b }}",
      "{{ a",
      "{ a } and {{ a b }}",
      "no tokens here" }

\* Variable stores; in the last one a value is itself a token
TemplateStores ==
    { [k \in {} |-> ""],
      "name" :> "world",
      ("steps.build.output" :> "success")
          @@ ("steps.security-audit.output" :> "APPROVED"),
      ("a" :> "1") @@ ("b" :> "2"),
      ("a" :> "") @@ ("b" :> "x") @@ ("unknown" :> "known"),
      ("a" :> "{{ b }}") @@ ("b" :> "x") }

ResolveCall(template, store, pass) ==
    [fn |-> "resolveTemplate", template |-> template, variables |-> store,
     pass |-> pass]

\* Conditions are put together from a path, an operator with the white
\* space around it, and a text, which contains may have in double quotes
ConditionPaths == {"steps.audit.output", "steps.test.exitCode", "steps.missing.output"}

ConditionOperators == {" contains ", "  CONTAINS\t", " == ", "=="}

ConditionTexts == {"APPROVED", "approved", "0", " 0 ", "Looks Good"}

ConditionStores ==
    { [k \in {} |-> ""],
      ("steps.audit.output" :> "All checks passed. APPROVED")
          @@ ("steps.test.exitCode" :> "0"),
      ("steps.audit.output" :> "approved by reviewer")
          @@ ("steps.test.exitCode" :> "1"),
      ("steps.audit.output" :> "looks good to me")
          @@ ("steps.test.exitCode" :> " 0\n"),
      ("steps.audit.output" :> "Issues found: 3")
          @@ ("steps.test.exitCode" :> "00"),
      ("steps.audit.output" :> "APPROVED")
          @@ ("steps.test.exitCode" :> "approved") }

EvaluateCall(path, operator, text, quoted, store) ==
    [fn |-> "evaluateCondition", path |-> path, operator |-> operator,
     text |-> text, quoted |-> quoted,
     condition |-> path \o operator
                   \o (IF quoted THEN "\"" \o text \o "\"" ELSE text),
     variables |-> store]

\* Review texts made of sentences of known kinds: what a review says when
\* it is positive, when it reports a blocking issue, when it reports a
\* non-blocking one, and a sentence of none of these kinds
PositiveSentences == {"", "LGTM.", "No issues found."}
BlockingSentences == {"", "There is a bug in the parser.", "Build FAILED on CI."}
NonBlockingSentences == {"", "Nit: naming of the helper.", "Consider a comment."}
NeutralSentence == "The handler returns early."

ClassifyCall(positive, blocking, nonBlocking) ==
    [fn |-> "hasBlockingFindings",
     positive |-> positive, blocking |-> blocking, nonBlocking |-> nonBlocking,
     output |-> NeutralSentence \o " " \o nonBlocking \o " " \o blocking
                \o " " \o positive]

\* A loop condition on the output of a step, in a workflow build, <name>
\* (loop), fix, with the store as it is once <name> has executed
LoopStepNames == {"audit", "code-review", "security_audit", "unit.test"}
LoopStepOutputs == {"APPROVED", "All good: approved", "Needs work"}

LoopConditionCall(name, output) ==
    LET until == "steps." \o name \o ".output contains APPROVED"
    IN  [fn |-> "loopCondition", name |-> name, text |-> "APPROVED",
         output |-> output, until |-> until,
         workflow |->
             [name |-> "build-" \o name \o "-fix", agents |-> Agents,
              steps |-> << AgentStep("build", "builder", "Build.", << >>, FALSE),
                           WithLoop(AgentStep(name, "auditor", "Review.",
                                              << >>, FALSE),
                                    until, 3, "fail"),
                           AgentStep("fix", "builder", "Fix.", << >>, FALSE) >>],
         variables |-> ("feature_spec" :> "")
                       @@ (("steps." \o name \o ".output") :> output)
                       @@ (("steps." \o name \o ".exitCode") :> "0")]

\* Only contains takes a quoted text
TemplateInit ==
    /\ call \in { ResolveCall(t, v, 1) : t \in Templates, v \in TemplateStores }
           \cup { EvaluateCall(p, o, t, q, v) :
                      p \in ConditionPaths, o \in ConditionOperators,
                      t \in ConditionTexts, q \in {FALSE},
                      v \in ConditionStores }
           \cup { EvaluateCall(p, o, t, q, v) :
                      p \in ConditionPaths, o \in {" contains ", "  CONTAINS\t"},
                      t \in ConditionTexts, q \in {TRUE},
                      v \in ConditionStores }
           \cup { LoopConditionCall(n, o) :
                      n \in LoopStepNames, o \in LoopStepOutputs }
           \cup { ClassifyCall(p, b, n) :
                      p \in PositiveSentences, b \in BlockingSentences,
                      n \in NonBlockingSentences }
    /\ returned = << >>
    /\ config = BuildAuditFix
    /\ optWorktree = FALSE
    /\ optDryRun = FALSE
    /\ installed = Probed
    /\ pc = "plan"
    /\ EngineStart
    /\ CliIdle

\* resolveTemplate(template, variables) returns
Resolve ==
    /\ call.fn = "resolveTemplate"
    /\ returned = << >>
    /\ returned' = << resolveTemplate(call.template, call.variables) >>
    /\ UNCHANGED << call, cliVars, hostVars, outVars, config, stepGroups,
                    maxIterations, reEntryIndex, worktree, pc, iteration,
                    gi, variables, records, approved, members, frozen,
                    invoked, dirty, commits, exitCode >>

\* The resolved text is given to resolveTemplate once more
ResolveAgain ==
    /\ call.fn = "resolveTemplate"
    /\ call.pass = 1
    /\ returned # << >>
    /\ call' = ResolveCall(returned[1], call.variables, 2)
    /\ returned' = << >>
    /\ UNCHANGED << cliVars, hostVars, outVars, config, stepGroups,
                    maxIterations, reEntryIndex, worktree, pc, iteration,
                    gi, variables, records, approved, members, frozen,
                    invoked, dirty, commits, exitCode >>

\* hasBlockingFindings(output) returns
Classify ==
    /\ call.fn = "hasBlockingFindings"
    /\ returned = << >>
    /\ returned' = << hasBlockingFindings(call.output) >>
    /\ UNCHANGED << call, cliVars, hostVars, outVars, config, stepGroups,
                    maxIterations, reEntryIndex, worktree, pc, iteration,
                    gi, variables, records, approved, members, frozen,
                    invoked, dirty, commits, exitCode >>

\* run() on a loop condition: the re-entry point computed from it before
\* the loops, and its evaluation after the loop step has executed
EvaluateLoopCondition ==
    /\ call.fn = "loopCondition"
    /\ returned = << >>
    /\ returned' = << [refStepName  |-> condMatch(call.until),
                       reEntryIndex |-> ReEntryIndex(call.workflow),
                       holds |-> evaluateCondition(call.until, call.variables)] >>
    /\ UNCHANGED << call, cliVars, hostVars, outVars, config, stepGroups,
                    maxIterations, reEntryIndex, worktree, pc, iteration,
                    gi, variables, records, approved, members, frozen,
                    invoked, dirty, commits, exitCode >>

\* evaluateCondition(condition, variables) returns
Evaluate ==
    /\ call.fn = "evaluateCondition"
    /\ returned = << >>
    /\ returned' = << evaluateCondition(call.condition, call.variables) >>
    /\ UNCHANGED << call, cliVars, hostVars, outVars, config, stepGroups,
                    maxIterations, reEntryIndex, worktree, pc, iteration,
                    gi, variables, records, approved, members, frozen,
                    invoked, dirty, commits, exitCode >>

TemplateNext ==
    \/ Resolve
    \/ ResolveAgain
    \/ Evaluate
    \/ EvaluateLoopCondition
    \/ Classify

SpecTemplate == TemplateInit /\ [][TemplateNext]_vars


\* ------------------------------------------------------------------------
\* Properties
\* ------------------------------------------------------------------------

\* The names of the steps invoked so far, in invocation order
InvokedNames == [i \in 1..Len(invoked) |-> invoked[i].step]

\* The run has ended because a member's executeOneStep threw
Rejected == \E m \in 1..Len(members) : members[m].pc = "thrown"

\* The record of step `name` on iteration `it` says `text` (any case)
Recorded(name, it, text) ==
    \E i \in 1..Len(records) :
        /\ records[i].step = name
        /\ records[i].iteration = it
        /\ includes(toUpperCase(records[i].output), text)

\* The case of C1: in the build, audit (loop, max 3), fix workflow the
\* audit output lacks APPROVED on iteration 1 and has it on iteration 2
C1_Case ==
    /\ config = BuildAuditFix
    /\ pc = "done"
    /\ \E i \in 1..Len(records) :
          records[i].step = "audit" /\ records[i].iteration = 1
    /\ ~Recorded("audit", 1, "APPROVED")
    /\ Recorded("audit", 2, "APPROVED")

\* C1: in a run of the workflow build, audit (loop until the audit output
\* contains APPROVED, max 3), fix, where the audit output fails the
\* condition on iteration 1 and satisfies it on iteration 2, the steps
\* invoked are exactly build, audit, fix, audit, in this order, and the run
\* ends approved.
C1_BuildAuditFixAudit ==
    C1_Case =>
        /\ InvokedNames = << "build", "audit", "fix", "audit" >>
        /\ [i \in 1..Len(invoked) |-> invoked[i].iteration] = << 1, 1, 1, 2 >>
        /\ approved
        /\ exitCode = 0

C1_Witness == C1_Case /\ Len(invoked) = 4 /\ approved

\* The first step that declares a loop, as a 1-based position (0: none)
LoopPosition(cfg) ==
    IF \E i \in 1..Len(cfg.steps) : HasLoop(cfg.steps[i])
    THEN CHOOSE i \in 1..Len(cfg.steps) :
            /\ HasLoop(cfg.steps[i])
            /\ \A j \in 1..(i - 1) : ~HasLoop(cfg.steps[j])
    ELSE 0

\* The condition `until` starts with steps.<name>. followed by a field
\* that has no dot
Names(until, name) ==
    LET prefix == "steps." \o name \o "."
        rest   == SliceFrom(until, Len(prefix))
    IN  /\ name # ""
        /\ startsWith(until, prefix)
        /\ \A k \in 1..RunLen(rest, RefChars) : Char(rest, k) # "."

\* The 1-based position at which the parallel batch (or sequential group)
\* holding position i starts: the start of the maximal run of consecutive
\* parallel steps around i
BatchStart(steps, i) ==
    IF ~steps[i].parallel THEN i
    ELSE CHOOSE j \in 1..i :
            /\ \A k \in j..i : steps[k].parallel
            /\ (j = 1 \/ ~steps[j - 1].parallel)

ExpectedReEntry(cfg) ==
    LET lp    == LoopPosition(cfg)
        named == IF lp = 0 THEN {}
                 ELSE { i \in 1..Len(cfg.steps) :
                          Names(cfg.steps[lp].loop.until, cfg.steps[i].name) }
    IN  IF named = {} THEN 0
        ELSE BatchStart(cfg.steps, CHOOSE i \in named :
                                       \A j \in named : i <= j) - 1

\* C2: the re-entry index is the start index of the group that contains
\* the step named by the steps.<name>. prefix of the loop condition, so a
\* step inside a parallel batch re-enters at the start of its batch; it is
\* 0 when the condition has no such prefix or names no step of the workflow.
C2_ReEntryIndex ==
    pc # "plan" => reEntryIndex = ExpectedReEntry(config)

\* A planned workflow whose condition names a later member of a batch
C2_Witness ==
    /\ pc # "plan"
    /\ reEntryIndex > 0
    /\ \E i \in 1..Len(config.steps) :
          /\ LoopPosition(config) # 0
          /\ Names(config.steps[LoopPosition(config)].loop.until,
                   config.steps[i].name)
          /\ i - 1 > reEntryIndex

\* The name of the step that declares the loop ("" when there is none)
LoopStepName ==
    IF LoopPosition(config) = 0 THEN ""
    ELSE config.steps[LoopPosition(config)].name

LoopUntil ==
    IF LoopPosition(config) = 0 THEN ""
    ELSE config.steps[LoopPosition(config)].loop.until

\* The 1-based position of the step called `name` in the workflow
Position(name) ==
    CHOOSE i \in 1..Len(config.steps) : config.steps[i].name = name

\* Every invocation made so far has returned and is in the records
AllRecorded == Len(records) = Len(invoked)

\* The run is past its loops: at the report or ended
PastLoops == pc \in {"report", "done"}

\* C3: when the loop step's condition evaluates true right after the loop
\* step has executed, the run is marked approved and leaves the loops, and
\* once approved no step of a later group or a later iteration is invoked:
\* the last invocation of an approved run is the loop step's.
C3_ApprovedStops ==
    /\ ( /\ records # << >>
         /\ AllRecorded
         /\ records[Len(records)].step = LoopStepName
         /\ evaluateCondition(LoopUntil, variables) )
       => (approved /\ PastLoops)
    /\ approved =>
          /\ PastLoops
          /\ AllRecorded
          /\ invoked[Len(invoked)].step = LoopStepName
          /\ records[Len(records)].step = LoopStepName
          /\ records[Len(records)].iteration = iteration

\* An approved run that had groups and iterations left
C3_Witness ==
    /\ approved
    /\ pc = "done"
    /\ exitCode = 0
    /\ iteration < maxIterations
    /\ LoopPosition(config) < Len(config.steps)

\* The loop step's condition has evaluated false on the final iteration
Exhausted ==
    /\ LoopPosition(config) # 0
    /\ ~approved
    /\ \E i \in 1..Len(records) :
          /\ records[i].step = LoopStepName
          /\ records[i].iteration = maxIterations

\* The invocation of the loop step on the final iteration, as an index of
\* `invoked`
LastLoopInvocation ==
    CHOOSE k \in 1..Len(invoked) :
        invoked[k].step = LoopStepName /\ invoked[k].iteration = maxIterations

\* C4 as stated: once the loop step's condition has evaluated false on the
\* final iteration, no further step is invoked after the loop step's group.
C4_NoStepAfterExhaustion ==
    Exhausted => invoked[Len(invoked)].step = LoopStepName

\* C4, amended: once the loop step's condition has evaluated false on the
\* final iteration, the only steps invoked afterwards are those of the
\* groups after the loop step's group, on that same iteration; a run that
\* completes has invoked every one of them, is not approved, and exits
\* with 1 under on_max: fail and with 0 under any other policy.
C4_ExhaustedRunsRest ==
    Exhausted =>
        LET k     == LastLoopInvocation
            after == { i \in 1..Len(invoked) : i > k }
            rest  == { i \in 1..Len(config.steps) : i > LoopPosition(config) }
        IN  /\ \A i \in after :
                  /\ invoked[i].iteration = maxIterations
                  /\ Position(invoked[i].step) \in rest
            /\ \A i \in 1..Len(invoked) : invoked[i].iteration <= maxIterations
            /\ (PastLoops /\ ~Rejected) =>
                  /\ { Position(invoked[i].step) : i \in after } = rest
                  /\ Cardinality(after) = Cardinality(rest)
            /\ (pc = "done" /\ ~Rejected) =>
                  exitCode = IF loopConfig(config).on_max = "fail" THEN 1 ELSE 0

\* A run that ended unapproved after invoking the step that follows the
\* loop step on the final iteration
C4_Witness ==
    /\ Exhausted
    /\ pc = "done"
    /\ LoopPosition(config) < Len(config.steps)
    /\ invoked[Len(invoked)].step # LoopStepName
    /\ invoked[Len(invoked)].iteration = maxIterations
    /\ exitCode = 1

\* The group of the plan that holds the step called `name`
GroupOf(name) ==
    CHOOSE g \in 1..Len(stepGroups) :
        \E m \in 1..Len(stepGroups[g].steps) : stepGroups[g].steps[m].name = name

BeforeReEntry(name) == stepGroups[GroupOf(name)].startIndex < reEntryIndex

\* C5: on every iteration after the first no step of a group that starts
\* before the re-entry index is invoked, and the store entries of such a
\* step keep the values written on iteration 1 for the rest of the run.
C5_SkippedGroupsKeepValues ==
    /\ \A i \in 1..Len(invoked) :
          invoked[i].iteration > 1 => ~BeforeReEntry(invoked[i].step)
    /\ \A i \in 1..Len(records) :
          (records[i].iteration = 1 /\ BeforeReEntry(records[i].step)) =>
              /\ variables["steps." \o records[i].step \o ".output"]
                     = records[i].output
              /\ variables["steps." \o records[i].step \o ".exitCode"]
                     = ToString(records[i].exitCode)

\* A run that went through a later iteration past a skipped group
C5_Witness ==
    /\ pc = "done"
    /\ reEntryIndex > 0
    /\ \E i \in 1..Len(records) : records[i].iteration > 1
    /\ \E i \in 1..Len(records) :
          records[i].iteration = 1 /\ BeforeReEntry(records[i].step)

\* What executeOneStep resolves for a step: the command of a shell step,
\* the prompt and its context block of an agent step
TemplateOf(step) ==
    IF step.run # "" THEN step.run ELSE step.prompt \o contextBlock(step)

Resolved(m) == members[m].pc \in {"running", "done"}

Unfinished(m) == members[m].pc \in {"running", "ctx"}

\* C6: while a parallel group runs, the store is the store as it was when
\* the group started, and the input of every member invoked so far is its
\* template resolved against that store: no member observes the output of
\* a sibling of the same batch.
C6_MembersSeeStartStore ==
    (pc = "await" /\ RunsInParallel(group)) =>
        /\ variables = frozen
        /\ \A m \in 1..Len(members) :
              Resolved(m) =>
                  members[m].input
                      = resolveTemplate(TemplateOf(group.steps[m]), frozen)

\* A member whose template reads a sibling's output has been invoked while
\* that sibling had already returned an output that differs from the store's
C6_Witness ==
    /\ pc = "await"
    /\ RunsInParallel(group)
    /\ \E a, b \in 1..Len(members) :
          LET key == "steps." \o group.steps[a].name \o ".output"
          IN  /\ a # b
              /\ members[a].pc = "done"
              /\ Resolved(b)
              /\ includes(TemplateOf(group.steps[b]), key)
              /\ key \in DOMAIN frozen
              /\ frozen[key] # members[a].result.output

\* C7: a parallel group is a barrier: while any member invocation of the
\* current group is unfinished the engine is still awaiting the group; it
\* has not left it, ended the run or abandoned the member, even when a
\* sibling has failed.
C7_ParallelBarrier ==
    (\E m \in 1..Len(members) : Unfinished(m)) => pc = "await"

\* The executions of groups begun so far, as <<iteration, group>> pairs
Executions ==
    { << invoked[i].iteration, GroupOf(invoked[i].step) >> :
          i \in 1..Len(invoked) }

\* The engine is inside the body of the current group: the execution of
\* that group has not been committed yet, or was aborted
InsideGroup == pc \in {"await", "commit", "rejected"} \/ Rejected

CommittedExecutions ==
    IF InsideGroup THEN Executions \ { << iteration, gi + 1 >> }
    ELSE Executions

\* C8: in an isolated run every execution of a group that the engine has
\* begun and is no longer inside has had exactly one snapshot-commit
\* attempt: the attempts made are as many as the executions.
C8_ExactlyOneCommitPerExecution ==
    (worktree /\ pc \in {"group", "report", "done"}) =>
        Len(commits) = Cardinality(Executions)

\* What holds of the commits of an isolated run: a snapshot commit is
\* attempted only when every member of the current group has finished and
\* its result is in the store, so no commit overlaps a step invocation;
\* the attempts made so far are one per group execution completed so far,
\* each labelled with the names of that group's steps and its iteration.
\* The execution that a throwing member aborts has no attempt.
CommitsFollowCompletedGroups ==
    (worktree /\ pc # "plan") =>
        /\ pc = "commit" =>
              \A m \in 1..Len(members) :
                  /\ members[m].pc = "done"
                  /\ variables["steps." \o group.steps[m].name \o ".output"]
                         = members[m].result.output
                  /\ variables["steps." \o group.steps[m].name \o ".exitCode"]
                         = ToString(members[m].result.exitCode)
        /\ Len(commits) = Cardinality(CommittedExecutions)
        /\ { << commits[i].iteration, commits[i].names >> :
                 i \in 1..Len(commits) }
           = { << e[1], StepNames(stepGroups[e[2]].steps) >> :
                 e \in CommittedExecutions }

\* The records a run makes when every group runs on every iteration
FullRunRecords ==
    Len(config.steps)
    + (maxIterations - 1)
      * Cardinality({ i \in 1..Len(config.steps) :
                        ~BeforeReEntry(config.steps[i].name) })

\* records[i] is the latest record of its step
Latest(i) == \A j \in (i + 1)..Len(records) : records[j].step # records[i].step

\* The store entry of the step is written and its record is not yet
\* (sequential group of an isolated run, before its commit)
RecordPending(name) ==
    pc = "commit" /\ ~RunsInParallel(group) /\ group.steps[1].name = name

\* C9: a non-zero exit code never ends the run: every result, whatever its
\* exit code, is written to the store and recorded once, and a run that
\* ends without approval has executed every group of every iteration that
\* is not skipped.
C9_NonZeroExitContinues ==
    stepGroups # << >> =>
        /\ \A i \in 1..Len(records) :
              (Latest(i) /\ ~RecordPending(records[i].step)) =>
                  /\ variables["steps." \o records[i].step \o ".output"]
                         = records[i].output
                  /\ variables["steps." \o records[i].step \o ".exitCode"]
                         = ToString(records[i].exitCode)
        /\ (~InsideGroup) =>
              /\ AllRecorded
              /\ { << records[i].step, records[i].iteration >> :
                       i \in 1..Len(records) }
                 = { << invoked[i].step, invoked[i].iteration >> :
                       i \in 1..Len(invoked) }
        /\ (PastLoops /\ ~approved /\ ~Rejected) =>
              Len(records) = FullRunRecords

\* A completed run in which one member of a parallel batch exited with 0,
\* a sibling with another code, and a later group was executed
C9_Witness ==
    /\ pc = "done"
    /\ ~Rejected
    /\ \E i, j, k \in 1..Len(records) :
          /\ i # j /\ i < k /\ j < k
          /\ records[i].iteration = records[j].iteration
          /\ GroupOf(records[i].step) = GroupOf(records[j].step)
          /\ records[i].exitCode = 0
          /\ records[j].exitCode # 0
          /\ GroupOf(records[k].step) # GroupOf(records[i].step)

\* C10: in the build/review/fix command a non-zero exit code of a Build,
\* Review or Fix invocation is fatal at once: the failed invocation is the
\* last one (no Fix follows a failed Review), the process has exited with
\* status 1, and the run is not approved whatever the review said and
\* whichever iteration it was.
C10_NonZeroExitIsFatal ==
    \A k \in 1..Len(calls) :
        calls[k].exitCode > 0 =>
            /\ k = Len(calls)
            /\ cliPc = "exited"
            /\ cliExitCode = 1
            /\ ~cliApproved
            /\ stepsRun = Len(calls)

\* A Review that printed APPROVED and exited with a non-zero code, on a
\* later iteration
C10_Witness ==
    /\ calls # << >>
    /\ calls[Len(calls)].name = "Review"
    /\ calls[Len(calls)].exitCode > 0
    /\ isApprovedReview(calls[Len(calls)].output)
    /\ calls[Len(calls)].iteration > 1
    /\ cliPc = "exited"

\* The steps of the groups gs, concatenated in group order
RECURSIVE Flatten(_)
Flatten(gs) ==
    IF gs = << >> THEN << >> ELSE Head(gs).steps \o Flatten(Tail(gs))

\* C16: concatenating the steps of the groups of groupSteps, in group
\* order, reproduces the step list exactly, and each group's startIndex is
\* the 0-based flat position of its first step (the number of steps in the
\* groups before it).
C16_GroupsPartitionSteps ==
    pc # "plan" =>
        /\ Flatten(stepGroups) = config.steps
        /\ \A g \in 1..Len(stepGroups) :
              /\ stepGroups[g].steps # << >>
              /\ stepGroups[g].startIndex
                     = Len(Flatten(SubSeq(stepGroups, 1, g - 1)))
              /\ config.steps[stepGroups[g].startIndex + 1]
                     = stepGroups[g].steps[1]

\* A planned workflow with a batch of two or more followed by another group
C16_Witness ==
    /\ pc # "plan"
    /\ \E g \in 1..(Len(stepGroups) - 1) :
          /\ Len(stepGroups[g].steps) >= 2
          /\ stepGroups[g + 1].startIndex > g

\* The 1-based position at which the maximal run of consecutive parallel
\* steps around position i ends
BatchEnd(steps, i) ==
    IF ~steps[i].parallel THEN i
    ELSE CHOOSE j \in i..Len(steps) :
            /\ \A k \in i..j : steps[k].parallel
            /\ (j = Len(steps) \/ ~steps[j + 1].parallel)

\* The groups that hold position i of the step list
Holding(i) ==
    { g \in 1..Len(stepGroups) :
          /\ stepGroups[g].startIndex < i
          /\ i <= stepGroups[g].startIndex + Len(stepGroups[g].steps) }

\* C17: every maximal run of consecutive parallel-flagged steps is exactly
\* one parallel group, a lone parallel-flagged step included, so no two
\* adjacent groups are both parallel; every non-parallel step is a
\* non-parallel group of its own.
C17_MaximalParallelRuns ==
    pc # "plan" =>
        /\ \A i \in 1..Len(config.steps) :
              \E g \in 1..Len(stepGroups) :
                  /\ Holding(i) = {g}
                  /\ stepGroups[g].parallel = config.steps[i].parallel
                  /\ stepGroups[g].startIndex
                         = BatchStart(config.steps, i) - 1
                  /\ stepGroups[g].steps
                         = SubSeq(config.steps, BatchStart(config.steps, i),
                                  BatchEnd(config.steps, i))
        /\ \A g \in 1..(Len(stepGroups) - 1) :
              ~(stepGroups[g].parallel /\ stepGroups[g + 1].parallel)

\* A planned workflow with a lone parallel step between two sequential
\* steps: three groups, the middle one parallel with one member
C17_Witness ==
    /\ pc # "plan"
    /\ Len(stepGroups) = 3
    /\ stepGroups[2].parallel
    /\ Len(stepGroups[2].steps) = 1
    /\ ~stepGroups[1].parallel
    /\ ~stepGroups[3].parallel

\* The run failed on its configuration or its prerequisites: the definition
\* is rejected, a CLI it uses is missing, or a step names an agent that the
\* agents map does not define
ConfigurationError ==
    \/ ~Valid(config)
    \/ missing(usedClis(config), installed) # {}
    \/ Rejected

\* C11: a run that fails on a configuration or prerequisite error (invalid
\* definition, a step whose agent is not in the agents map, a missing CLI)
\* has invoked no step, created no worktree and made no commit.
C11_ErrorsAbortBeforeSideEffects ==
    (pc = "done" /\ ConfigurationError) =>
        /\ invoked = << >>
        /\ ~worktree
        /\ \A i \in 1..Len(commits) : ~commits[i].committed

\* C15: every definition that validation accepts has pairwise distinct
\* step names.
C15_AcceptedNamesDistinct ==
    (pc = "check" /\ Valid(config)) =>
        \A i, j \in 1..Len(config.steps) :
            i # j => config.steps[i].name # config.steps[j].name

\* C18: every run that has started executing steps ends with a status
\* emitted and with the report of the executed steps written, whether it
\* ends approved, with its iterations exhausted or on a step execution
\* error.
C18_EveryEndEmitsStatusAndReport ==
    (pc = "done" /\ invoked # << >>) =>
        /\ status # ""
        /\ report # NoReport
        /\ report.records = records

\* The exit status of the process when an invocation has fatally failed
FatalExitCode == 1

\* The command has ended because an invocation failed
CliStepFailed ==
    cliPc = "exited" /\ \E k \in 1..Len(calls) : calls[k].exitCode > 0

\* The command has ended unapproved with no failed invocation: the
\* iterations are exhausted
CliExhausted ==
    /\ cliPc = "exited"
    /\ ~cliApproved
    /\ \A k \in 1..Len(calls) : calls[k].exitCode = 0

\* C19: a run that ends not approved signals by its exit status whether
\* its iterations were exhausted or a step fatally failed: the status of a
\* fatal step failure is never the status of an exhausted run.
C19_ExitDistinguishesExhaustion ==
    /\ CliStepFailed => cliExitCode = FatalExitCode
    /\ CliExhausted => cliExitCode # FatalExitCode

\* The worktree of the run exists, and no other
WorktreeExists == worktrees = {RunBranch}

\* While the run is in progress: no step is invoked before the worktree
\* of an isolated run exists, a run in place has no worktree, and the
\* worktree created stays
WorktreeDuringRun ==
    /\ (optWorktree /\ invoked # << >>) => worktree
    /\ ~optWorktree => (~worktree /\ worktrees = {})
    /\ ~worktree => worktrees = {}
    /\ (worktree /\ pc # "done") => WorktreeExists

\* The set of worktrees changes only when the run creates its one
\* worktree, before any step, and when cleanup runs after the run
WorktreeChanges ==
    worktrees' # worktrees =>
        \/ /\ pc = "worktree"
           /\ invoked = << >>
           /\ worktrees = {}
           /\ worktrees' = {RunBranch}
        \/ /\ pc = "done"
           /\ pc' = "done"
           /\ worktrees' = {}

\* The run ends, approved or not or on an error, with its worktree there
WorktreeAtEnd ==
    (pc # "done" /\ pc' = "done" /\ worktree) => worktrees' = {RunBranch}

\* C20: an isolated run creates exactly one worktree, before any step is
\* invoked, and never removes it: the worktree exists when the run ends,
\* approved, unapproved or on an error, and only cleanup removes it.
C20_WorktreeLifetime ==
    /\ []WorktreeDuringRun
    /\ [][WorktreeChanges /\ WorktreeAtEnd]_vars

\* An isolated run that ended on an error after a step was invoked, its
\* worktree still there
C20_Witness ==
    /\ pc = "done"
    /\ Rejected
    /\ exitCode = 1
    /\ invoked # << >>
    /\ worktree
    /\ WorktreeExists

\* The two store keys of a step
KeysOf(name) == {"steps." \o name \o ".output", "steps." \o name \o ".exitCode"}

\* C14 as stated: the store is append-only.  No step of the run changes or
\* removes the value of a key once written, and the store grows by the two
\* keys of every step whose execution completes.
C14_StoreAppendOnly ==
    [][/\ \A k \in DOMAIN variables :
              k \in DOMAIN variables' /\ variables'[k] = variables[k]
       /\ (pc = "await" /\ pc' # "await") =>
              Cardinality(DOMAIN variables')
                  = Cardinality(DOMAIN variables) + 2 * Len(group.steps)]_vars

\* The keys that a step of the run adds or changes
Written == { k \in DOMAIN variables' :
                k \notin DOMAIN variables \/ variables'[k] # variables[k] }

\* C14, amended: no key is ever removed and feature_spec keeps its value;
\* the store changes only when a group's results are collected, and then
\* only under the two keys of each member, which hold the member's output
\* and exit code afterwards: two new entries on a step's first execution,
\* the same two entries overwritten on a later one.
C14_StoreWritesOwnKeys ==
    [][/\ DOMAIN variables \subseteq DOMAIN variables'
       /\ variables'["feature_spec"] = variables["feature_spec"]
       /\ Written # {} => (pc = "await" /\ pc' # "await")
       /\ (pc = "await" /\ pc' # "await") =>
              /\ Written \subseteq UNION { KeysOf(group.steps[m].name) :
                                              m \in 1..Len(group.steps) }
              /\ \A m \in 1..Len(group.steps) :
                    /\ variables'["steps." \o group.steps[m].name \o ".output"]
                           = members[m].result.output
                    /\ variables'["steps." \o group.steps[m].name \o ".exitCode"]
                           = ToString(members[m].result.exitCode)
              /\ Cardinality(DOMAIN variables')
                     = Cardinality(DOMAIN variables)
                       + 2 * Cardinality({ m \in 1..Len(group.steps) :
                               KeysOf(group.steps[m].name)
                                   \cap DOMAIN variables = {} })]_vars

\* A step executed on two iterations with different outputs, the store
\* holding the later one
C14_Witness ==
    \E i, j \in 1..Len(records) :
        /\ i < j
        /\ records[i].step = records[j].step
        /\ records[i].output # records[j].output
        /\ Latest(j)
        /\ variables["steps." \o records[j].step \o ".output"]
               = records[j].output

\* The invocation of member m of the current group has ended as proc says
Ended(m, kinds) ==
    /\ pc = "await"
    /\ members[m].pc = "done"
    /\ members[m].proc.kind \in kinds

\* The invocation ended on a fault of the invocation layer: the process
\* was not spawned, timed out, or exited with a non-zero code
Faulted(m) ==
    \/ Ended(m, {"timeout", "failed", "throws"})
    \/ Ended(m, {"exit"}) /\ members[m].proc.exitCode # 0

\* C12: every fault of the invocation layer (spawn failure, timeout,
\* non-zero exit), in a shell step or in any adapter, is returned as a
\* result with a non-zero exit code and, for a spawn failure and a timeout,
\* an output that says so; no fault ends the run as an exception.
C12_FaultsBecomeResults ==
    /\ \A m \in 1..Len(members) :
          Faulted(m) =>
              /\ members[m].result.exitCode > 0
              /\ Ended(m, {"timeout", "failed", "throws"})
                     => members[m].result.output # ""
    /\ Rejected => \E i \in 1..Len(config.steps) :
                      /\ config.steps[i].agent # ""
                      /\ config.steps[i].agent \notin DOMAIN config.agents

\* The marker that starts the output of a timed-out invocation
TimeoutMarker == "[TIMED OUT]"

\* C13: with every adapter of the registry, an agent invocation that
\* exceeds its timeout yields exit code 1, the timed-out flag and an output
\* that begins with the timeout marker.
C13_TimeoutResult ==
    \A m \in 1..Len(members) :
        (Ended(m, {"timeout"}) /\ group.steps[m].agent # "") =>
            /\ members[m].result.exitCode = 1
            /\ members[m].result.timedOut
            /\ startsWith(members[m].result.output, TimeoutMarker)

\* The same for the adapters that have a timeout branch and for the shell
\* step: the timed-out result carries the flag and the marker
BuiltInTimeoutResult ==
    \A m \in 1..Len(members) :
        (/\ Ended(m, {"timeout"})
         /\ (group.steps[m].agent # ""
                => config.agents[group.steps[m].agent].cli \in Probed)) =>
            /\ members[m].result.exitCode = 1
            /\ members[m].result.timedOut
            /\ startsWith(members[m].result.output, TimeoutMarker)

\* A template call of the given pass has returned
ResolveReturned(pass) ==
    call.fn = "resolveTemplate" /\ call.pass = pass /\ returned # << >>

\* C26: a token whose key is made of word characters, dots and hyphens and
\* is in the store is replaced by the value stored under the key.
C26_HyphenatedKeysResolve ==
    ResolveReturned(1) =>
        \A k \in DOMAIN call.variables :
            (/\ CharsOf(k) \subseteq RefChars
             /\ call.template = "{{ " \o k \o " }}")
                => returned[1] = call.variables[k]

\* A token as the claims describe it, anchored at the start of s: the key
\* is a run of word characters, dots and hyphens ("" when no token)
KeyOfTokenAt(s) ==
    IF ~startsWith(s, "{{") THEN ""
    ELSE LET a    == SliceFrom(s, 2)
             b    == SliceFrom(a, RunLen(a, SpaceChars))
             klen == RunLen(b, RefChars)
             c    == SliceFrom(b, klen)
             d    == SliceFrom(c, RunLen(c, SpaceChars))
         IN  IF klen > 0 /\ startsWith(d, "}}") THEN SubSeq(b, 1, klen) ELSE ""

\* The text has no token left whose key is in the store
FullyResolved(text, store) ==
    \A i \in 0..Len(text) : KeyOfTokenAt(SliceFrom(text, i)) \notin DOMAIN store

\* C27: resolving a text that is already fully resolved against the store
\* gives the same text: resolveTemplate(resolveTemplate(t, v), v) equals
\* resolveTemplate(t, v) whenever the latter is fully resolved.
C27_ResolveIdempotent ==
    (ResolveReturned(2) /\ FullyResolved(call.template, call.variables)) =>
        returned[1] = call.template

\* The second pass over "1 and 2", which the first pass made of
\* "{{ a }} and {{ b }}"
C27_Witness ==
    /\ ResolveReturned(2)
    /\ call.template = "1 and 2"
    /\ FullyResolved(call.template, call.variables)
    /\ returned = << "1 and 2" >>

\* a contains b, ignoring case
ContainsIgnoringCase(a, b) == includes(toLowerCase(a), toLowerCase(b))

\* What the condition of an evaluateCondition call says
Expected(c) ==
    LET value == Lookup(c.variables, c.path)
    IN  IF toLowerCase(trim(c.operator)) = "contains"
        THEN ContainsIgnoringCase(value,
                                  IF c.quoted THEN c.text
                                  ELSE SliceFrom(c.text, RunLen(c.text, SpaceChars)))
        ELSE trim(value) = trim(c.text)

HasApprovedLine(output) ==
    \E line \in Lines(output) : trim(line) = "APPROVED"

\* The k-th invocation is a Review that has returned with exit code 0
ReviewExitedZero(k) ==
    calls[k].name = "Review" /\ calls[k].exitCode = 0

\* A Fix is invoked after the k-th invocation
FixFollows(k) == k < Len(calls) /\ calls[k + 1].name = "Fix"

\* The loop has ended at the k-th invocation
LoopEndedAt(k) == k = Len(calls) /\ cliPc \in {"summary", "exited"}

\* C29: after a Review that exits 0 a Fix is invoked if and only if no line
\* of the review equals APPROVED after trimming, the review is classified
\* as blocking and the iteration is not the 5th; an approved or
\* non-blocking review ends the loop with no Fix.
C29_FixIffBlockingUnapproved ==
    \A k \in 1..Len(calls) :
        ReviewExitedZero(k) =>
            /\ FixFollows(k) <=>
                  /\ ~HasApprovedLine(calls[k].output)
                  /\ hasBlockingFindings(calls[k].output)
                  /\ calls[k].iteration # MAX_ITERATIONS
            /\ (\/ HasApprovedLine(calls[k].output)
                \/ ~hasBlockingFindings(calls[k].output))
                  => (LoopEndedAt(k) /\ cliApproved)

\* The same rule with approval as isApprovedReview decides it
FixIffBlockingNotApprovedReview ==
    \A k \in 1..Len(calls) :
        ReviewExitedZero(k) =>
            /\ FixFollows(k) <=>
                  /\ ~isApprovedReview(calls[k].output)
                  /\ hasBlockingFindings(calls[k].output)
                  /\ calls[k].iteration # MAX_ITERATIONS
            /\ (\/ isApprovedReview(calls[k].output)
                \/ ~hasBlockingFindings(calls[k].output))
                  => (LoopEndedAt(k) /\ cliApproved)

\* C30: the process exits with 0 if and only if the run ended approved;
\* every other ending (a non-zero exit code of an invocation, an execution
\* error, 5 iterations without approval) exits with 1.
C30_ExitZeroIffApproved ==
    cliPc = "exited" =>
        /\ cliExitCode \in {0, 1}
        /\ cliExitCode = 0 <=> cliApproved
        /\ cliApproved <=>
              /\ calls[Len(calls)].name = "Review"
              /\ calls[Len(calls)].exitCode = 0
              /\ \/ isApprovedReview(calls[Len(calls)].output)
                 \/ ~hasBlockingFindings(calls[Len(calls)].output)

\* The fifth review found a blocking issue and the process has exited
C30_Witness ==
    /\ cliPc = "exited"
    /\ cliExitCode = 1
    /\ Len(calls) = 2 * MAX_ITERATIONS
    /\ \A k \in 1..Len(calls) : calls[k].exitCode = 0

\* An invocation threw and the process has exited
ExitedOnExecutionError ==
    cliPc = "exited" /\ calls[Len(calls)].exitCode = -1 /\ cliExitCode = 1


\* A snapshot commit is attempted in this step
Attempted == Len(commits') = Len(commits) + 1

InvokedWithDiff ==
    /\ Len(invoked') = Len(invoked) + 1
    /\ \E i \in 1..Len(config.steps) :
          /\ config.steps[i].name = invoked'[Len(invoked')].step
          /\ config.steps[i].context # << >>

RemoveCalled == call'.fn = "removeWorktree" /\ << call', returned' >> # << call, returned >>

\* C23: worktree removal is best-effort.  removeWorktree reports removed =
\* true exactly when the checkout was removed (the worktree is gone), whether
\* or not the branch could be deleted afterwards; when the checkout cannot
\* be removed it reports removed = false with an error; it never throws.
C23_RemovalBestEffort ==
    /\ [](call.fn = "removeWorktree" =>
            /\ returned # << >>
            /\ ~returned[1].thrown
            /\ returned[1].removed <=> call.checkoutRemoved
            /\ ~call.checkoutRemoved => returned[1].error # "")
    /\ [][RemoveCalled =>
            /\ returned'[1].removed <=> (/\ call'.branch \in worktrees
                                         /\ call'.branch \notin worktrees')
            /\ ~returned'[1].removed => worktrees' = worktrees]_vars

\* The checkout was removed and the branch could not be deleted
C23_Witness ==
    /\ call.fn = "removeWorktree"
    /\ call.checkoutRemoved
    /\ ~call.branchDeleted
    /\ returned = << [removed |-> TRUE, thrown |-> FALSE, error |-> ""] >>
    /\ worktrees = {}

\* A removal that failed: the worktree is still there
RemovalFailed ==
    /\ call.fn = "removeWorktree"
    /\ ~returned[1].removed
    /\ returned[1].error # ""
    /\ worktrees # {}


\* A run of a workflow without a loop that went through its steps: every
\* step invoked once, in declared order, on iteration 1, with one record
\* each; status COMPLETE; exit status 0
RanOnceToCompletion ==
    /\ InvokedNames = StepNames(config.steps)
    /\ \A i \in 1..Len(invoked) : invoked[i].iteration = 1
    /\ [i \in 1..Len(records) |-> records[i].step] = StepNames(config.steps)
    /\ \A i \in 1..Len(records) : records[i].iteration = 1
    /\ status = "COMPLETE"
    /\ exitCode = 0

\* The run of a workflow without a loop has ended, having started its steps
NoLoopRunEnded ==
    /\ loopConfig(config) = NoLoop
    /\ stepGroups # << >>
    /\ pc = "done"

\* C24: a workflow with no loop declared runs exactly one iteration: every
\* step is invoked exactly once in declared order, there is exactly one
\* record per step, the final status is COMPLETE and the process does not
\* exit with a failure status, whatever the exit codes of the steps.
C24_NoLoopRunsOnce == NoLoopRunEnded => RanOnceToCompletion

\* The same for the runs in which no step threw
NoLoopRunsOnceUnlessThrown ==
    (NoLoopRunEnded /\ ~Rejected) => RanOnceToCompletion

\* A run without a loop completed although a step exited with a non-zero
\* code
NoLoopCompletedWithFailedStep ==
    /\ NoLoopRunEnded
    /\ RanOnceToCompletion
    /\ \E i \in 1..Len(records) : records[i].exitCode # 0


\* C25: a dry run is terminal.  After the definition is loaded and the
\* CLIs are checked it only prints the plan: no step is invoked, no
\* worktree is created even when isolation is requested, no commit is
\* made and no report is written, and it ends without a failure status
\* unless the definition or a CLI was rejected.
C25_DryRunIsTerminal ==
    optDryRun =>
        /\ invoked = << >>
        /\ members = << >>
        /\ records = << >>
        /\ ~worktree
        /\ worktrees = {}
        /\ commits = << >>
        /\ report = NoReport
        /\ pc \in {"load", "check", "dryrun", "done"}
        /\ (pc = "done" /\ ~ConfigurationError) =>
              (status = DryRunBanner /\ exitCode = 0)

\* The dry run of an isolated run has printed its plan and ended
C25_Witness ==
    /\ optDryRun
    /\ optWorktree
    /\ pc = "done"
    /\ status = DryRunBanner
    /\ worktrees = {}


\* C31: review text is classified by an ordered rule table: a positive
\* signal makes it non-blocking; otherwise a blocking pattern makes it
\* blocking; otherwise a non-blocking pattern makes it non-blocking;
\* otherwise it is blocking.  A text with a positive signal and a blocking
\* pattern is non-blocking, and one with a blocking and a non-blocking
\* pattern (and no positive signal) is blocking.
C31_ClassificationPriority ==
    (call.fn = "hasBlockingFindings" /\ returned # << >>) =>
        returned[1] = (IF call.positive # "" THEN FALSE
                       ELSE IF call.blocking # "" THEN TRUE
                       ELSE IF call.nonBlocking # "" THEN FALSE
                       ELSE TRUE)

\* A review with a positive signal, a blocking pattern and a non-blocking
\* one has been classified as non-blocking
C31_Witness ==
    /\ call.fn = "hasBlockingFindings"
    /\ call.positive # ""
    /\ call.blocking # ""
    /\ call.nonBlocking # ""
    /\ returned = << FALSE >>

\* A review with a blocking and a non-blocking pattern classified as
\* blocking
BlockingWinsOverNonBlocking ==
    /\ call.fn = "hasBlockingFindings"
    /\ call.positive = ""
    /\ call.blocking # ""
    /\ call.nonBlocking # ""
    /\ returned = << TRUE >>


\* The re-entry calculator has resolved the condition of the call to the
\* step it names: the second step of the workflow
ResolvedToStep ==
    /\ call.fn = "loopCondition"
    /\ returned # << >>
    /\ returned[1].refStepName = call.name
    /\ returned[1].reEntryIndex = 1

\* C39: whenever the re-entry calculator resolves the condition
\* steps.<name>.output contains X to an existing step, hyphenated names
\* included, the condition evaluator reads steps.<name>.output for the same
\* condition and returns true when that output contains X.
C39_ReEntryAndEvaluatorAgree ==
    (ResolvedToStep /\ ContainsIgnoringCase(call.output, call.text))
        => returned[1].holds

\* The same for the names made of word characters and dots
AgreeOnUnhyphenatedNames ==
    (ResolvedToStep /\ "-" \notin CharsOf(call.name)) =>
        (returned[1].holds <=> ContainsIgnoringCase(call.output, call.text))

\* The calculator resolves every name of LoopStepNames, the hyphenated one
\* included
HyphenatedNameResolved ==
    ResolvedToStep /\ call.name = "code-review" /\ call.output = "APPROVED"


\* The invocations of the given name so far
CallsOf(name) == { k \in 1..Len(calls) : calls[k].name = name }

\* The command has ended and no invocation failed or threw
EndedWithoutFailure ==
    cliPc = "exited" /\ \A k \in 1..Len(calls) : calls[k].exitCode = 0

\* Build is invoked exactly once and before the first Review; at most 5
\* Reviews and at most 4 Fixes are invoked; a run with no fatal failure
\* ends on a Review, with one Fix fewer than Reviews
InvocationCounts ==
    /\ CallsOf("Build") = {1}
    /\ Cardinality(CallsOf("Review")) <= MAX_ITERATIONS
    /\ Cardinality(CallsOf("Fix")) <= MAX_ITERATIONS - 1
    /\ EndedWithoutFailure =>
          /\ calls[Len(calls)].name = "Review"
          /\ Cardinality(CallsOf("Fix")) = Cardinality(CallsOf("Review")) - 1

\* C40 as stated: Build is invoked exactly once and only before the first
\* Review, at most 5 Reviews and at most 4 Fixes are invoked, every Fix is
\* immediately followed by a Review, and a run with no fatal failure ends
\* on a Review with one Fix fewer than Reviews.
C40_EveryFixFollowedByReview ==
    /\ InvocationCounts
    /\ cliPc = "exited" =>
          \A k \in CallsOf("Fix") :
              k < Len(calls) /\ calls[k + 1].name = "Review"

\* C40, amended: the counts as stated; every Fix that returns with exit
\* code 0 is immediately followed by a Review, and a Fix that fails or
\* throws is the last invocation of the run.
C40_SuccessfulFixFollowedByReview ==
    /\ InvocationCounts
    /\ \A k \in CallsOf("Fix") :
          /\ calls[k].exitCode = 0 =>
                (k < Len(calls) /\ calls[k + 1].name = "Review")
          /\ (cliPc = "exited" /\ calls[k].exitCode # 0) => k = Len(calls)

\* Five reviews found blocking issues, four fixes ran in between, and the
\* command has ended
C40_Witness ==
    /\ EndedWithoutFailure
    /\ Cardinality(CallsOf("Review")) = MAX_ITERATIONS
    /\ Cardinality(CallsOf("Fix")) = MAX_ITERATIONS - 1
    /\ calls[Len(calls)].name = "Review"


\* The run is a run of the README workflow: build, audit, fix with the
\* loop declared on fix
ReadmeWorkflow == \E m \in LoopMaxValues : config = BuildAuditFixLoopLast(m)

\* C32: in the README workflow fix is invoked only if the auditor found
\* issues: fix is never invoked on an iteration whose audit output contains
\* APPROVED, and a run whose last audit output contains APPROVED ends
\* approved.
C32_FixOnlyAfterIssues ==
    ReadmeWorkflow =>
        /\ \A i \in 1..Len(invoked) :
              invoked[i].step = "fix" =>
                  ~Recorded("audit", invoked[i].iteration, "APPROVED")
        /\ (pc = "done" /\ Recorded("audit", iteration, "APPROVED")) => approved

\* What the README workflow does: fix is invoked after every audit, and
\* the run is approved when the audit output contains APPROVED once fix
\* has executed
FixAfterEveryAudit ==
    (ReadmeWorkflow /\ pc = "done" /\ stepGroups # << >>) =>
        /\ \A i \in 1..Len(records) :
              records[i].step = "audit" =>
                  \E k \in 1..Len(invoked) :
                      /\ invoked[k].step = "fix"
                      /\ invoked[k].iteration = records[i].iteration
        /\ approved <=> Recorded("audit", iteration, "APPROVED")


\* executeOneStep has been called for the step `name` on iteration t: the
\* step has been invoked, or the call is the one in progress (its context
\* is being read, or it threw)
StartedIn(name, t) ==
    \/ \E k \in 1..Len(invoked) :
          invoked[k].step = name /\ invoked[k].iteration = t
    \/ /\ t = iteration
       /\ pc \in {"await", "rejected"} \/ Rejected
       /\ \E m \in 1..Len(members) :
             /\ group.steps[m].name = name
             /\ members[m].pc \in {"ctx", "thrown"}

PlannedRun ==
    /\ Valid(config)
    /\ missing(usedClis(config), installed) = {}
    /\ ~optDryRun
    /\ stepGroups # << >>

\* C34: a run that passes validation and the prerequisite check and is not
\* a dry run executes iteration 1 from group 0, for every loop
\* configuration that validation accepts: once it has ended, the first step
\* of the workflow has been invoked.
C34_FirstStepAlwaysInvoked ==
    (PlannedRun /\ pc = "done")
        => \E k \in 1..Len(invoked) : invoked[k].step = config.steps[1].name

\* With an iteration budget of at least one the first step is started on
\* iteration 1 in every planned run that has left the plan
FirstStepInvokedWithPositiveBudget ==
    (PlannedRun /\ MaxIterationsOf(config) >= 1 /\ pc # "group")
        => StartedIn(config.steps[1].name, 1)

\* A run with a declared budget of zero iterations has ended after
\* reporting, with no step invoked
ZeroBudgetRunEnded ==
    /\ PlannedRun
    /\ pc = "done"
    /\ MaxIterationsOf(config) = 0
    /\ invoked = << >>


\* The run ended through the summary and the report, not approved, with a
\* loop declared
EndedUnapproved ==
    /\ pc = "done"
    /\ report # NoReport
    /\ ~approved
    /\ loopConfig(config) # NoLoop

\* What the caller can observe of a run that ended as this one did, had its
\* overflow policy been on_max: the exit status, the summary line and the
\* report
OutcomeUnder(on_max) ==
    << exitStatus(approved, on_max),
       summary(approved, TRUE),
       generateReport(config.name, records, approved) >>

\* C35: the overflow policy decides the outcome of a run that ends
\* unapproved with a loop declared: under fail the process exits with a
\* failure status after the report is written, under pause and under
\* continue it ends without one, and each of the three policies gives an
\* outcome that the other two do not give.
C35_PoliciesDistinguishable ==
    EndedUnapproved =>
        LET on_max == loopConfig(config).on_max
        IN  /\ << exitCode, status, report >> = OutcomeUnder(on_max)
            /\ on_max = "fail" => exitCode = 1
            /\ on_max \in {"pause", "continue"} => exitCode = 0
            /\ \A other \in OnMax \ {on_max} :
                  OutcomeUnder(other) # OutcomeUnder(on_max)

\* The exit status follows the policy: 1 under fail after the report is
\* written, 0 under pause and under continue
FailExitsOneOthersZero ==
    EndedUnapproved =>
        /\ << exitCode, status, report >> = OutcomeUnder(loopConfig(config).on_max)
        /\ exitCode = (IF loopConfig(config).on_max = "fail" THEN 1 ELSE 0)

\* A run under on_max: pause has ended unapproved, with the outcome that
\* on_max: continue gives
EndedUnapprovedUnderPause ==
    /\ EndedUnapproved
    /\ loopConfig(config).on_max = "pause"
    /\ OutcomeUnder("continue") = << exitCode, status, report >>


\* The group of the plan that holds the step at the 0-based index i
GroupHolding(i) ==
    CHOOSE g \in 1..Len(stepGroups) :
        /\ stepGroups[g].startIndex <= i
        /\ i < stepGroups[g].startIndex + Len(stepGroups[g].steps)

\* The loop condition reads a value of the step at the 1-based position i
ConditionReads(cfg, i) ==
    LET prefix == "steps." \o cfg.steps[i].name \o "."
        until == loopConfig(cfg).until
    IN  /\ Len(until) >= Len(prefix)
        /\ SubSeq(until, 1, Len(prefix)) = prefix

\* C37: the loop-carrying step is never skipped by re-entry: for every
\* workflow accepted by validation the re-entry index is at most the start
\* index of the loop step's group, so the loop step is executed on every
\* iteration of an unapproved run.
C37_LoopStepNeverSkipped ==
    (stepGroups # << >> /\ Valid(config) /\ loopStepIndex(config) >= 0)
        => reEntryIndex
              <= stepGroups[GroupHolding(loopStepIndex(config))].startIndex

\* The re-entry index passes the loop step only when the condition reads a
\* step declared after it
ReEntryPassesLoopStepOnlyOnForwardReads ==
    (stepGroups # << >> /\ Valid(config) /\ loopStepIndex(config) >= 0
       /\ reEntryIndex > loopStepIndex(config))
        => \E i \in (loopStepIndex(config) + 2)..Len(config.steps) :
              ConditionReads(config, i)

\* A validated workflow whose loop condition reads a later step has been
\* planned: re-entry starts after the loop step, which iterations 2 and up
\* skip
ForwardReadPlanned ==
    /\ stepGroups # << >>
    /\ Valid(config)
    /\ loopStepIndex(config) = 0
    /\ Len(config.steps) >= 2
    /\ ConditionReads(config, 2)
    /\ reEntryIndex >= 1
    /\ SkipsGroup(2, stepGroups[GroupHolding(0)])


\* Between group executions: the plan is made, no group is in progress and
\* no member threw
AfterGroupExecution ==
    stepGroups # << >> /\ ~InsideGroup /\ ~Rejected

\* C38: after every group execution the store and the records agree: there
\* is one record per completed step invocation, the records are in
\* execution order (declared member order inside a parallel group) with
\* non-decreasing iteration numbers, and for every step that has executed
\* the store's steps.<name>.output and steps.<name>.exitCode (the exit code
\* as a string) are those of the step's most recent record.
C38_StoreAndRecordsAgree ==
    AfterGroupExecution =>
        /\ Len(records) = Len(invoked)
        /\ \A k \in 1..Len(records) :
              /\ records[k].step = invoked[k].step
              /\ records[k].iteration = invoked[k].iteration
        /\ \A k \in 1..(Len(records) - 1) :
              records[k].iteration <= records[k + 1].iteration
        /\ \A k \in 1..Len(records) :
              Latest(k) =>
                  /\ variables["steps." \o records[k].step \o ".output"]
                         = records[k].output
                  /\ variables["steps." \o records[k].step \o ".exitCode"]
                         = ToString(records[k].exitCode)
        /\ \A i \in 1..Len(config.steps) :
              KeysOf(config.steps[i].name) \cap DOMAIN variables # {}
                  => \E k \in 1..Len(records) :
                        records[k].step = config.steps[i].name

\* A step has executed twice with different results, in a run that also
\* executed a parallel group: the store holds the later result
C38_Witness ==
    /\ AfterGroupExecution
    /\ \E g \in 1..Len(stepGroups) : RunsInParallel(stepGroups[g])
    /\ \E j, k \in 1..Len(records) :
          /\ j < k
          /\ records[j].step = records[k].step
          /\ records[j].output # records[k].output
          /\ Latest(k)
          /\ variables["steps." \o records[k].step \o ".output"]
                 = records[k].output


\* The workflows of the runs checked for termination
LiveWorkflows ==
    {ParallelAudit, LintAndTest, MissingAgentParallel, TestAndFix(0),
     TestAndFix(2)}

LiveInit ==
    /\ PureIdle
    /\ config \in LiveWorkflows
    /\ optWorktree \in (IF config \in IsolatedWorkflows THEN BOOLEAN ELSE {FALSE})
    /\ optDryRun \in BOOLEAN
    /\ installed \in Hosts(config)
    /\ pc = "load"
    /\ EngineStart
    /\ CliIdle

\* The steps of run() that evaluate no template and no condition
ControlStep ==
    \/ Load
    \/ CheckAdapters
    \/ DryRun
    \/ CreateWorktree
    \/ Plan
    \/ SkipGroup
    \/ \E m \in 1..Len(members) : FinishMember(m)
    \/ CollectParallel
    \/ CommitParallel
    \/ RunRejected
    \/ Report

\* The steps of run() that resolve a template or evaluate the loop
\* condition
TemplateStep ==
    \/ StartGroup
    \/ \E m \in 1..Len(members) : ResolveContext(m)
    \/ CollectSequential
    \/ CommitSequential

\* ENABLED TemplateStep: the guards of the four steps (what follows the
\* guard in each is an assignment, which is always possible)
TemplateStepEnabled ==
    \/ pc = "group" /\ ~SkipsGroup(iteration, group)
    \/ pc = "await" /\ \E m \in 1..Len(members) : members[m].pc = "ctx"
    \/ pc = "await" /\ ~RunsInParallel(group) /\ AllDone
    \/ pc = "commit" /\ ~RunsInParallel(group)

\* run() is one async function and every awaited invocation returns: a step
\* of the run that stays enabled is eventually taken.  This is weak
\* fairness of ControlStep and of TemplateStep, the latter spelled out
\* with the enabling condition above.  The cleanup command, which the user
\* may or may not run afterwards, carries no fairness.
SpecLive ==
    /\ LiveInit
    /\ [][Next]_vars
    /\ WF_vars(ControlStep)
    /\ ([]<>(~TemplateStepEnabled) \/ []<><<TemplateStep>>_vars)

\* The run was marked approved and left the loops
EndedApproved == approved /\ ~Rejected

\* Every group that no iteration skips was executed on every iteration of
\* the budget, without approval
EndedBudgetCompleted ==
    /\ ~approved
    /\ ~Rejected
    /\ \A it \in 1..maxIterations :
          \A g \in 1..Len(stepGroups) :
              ~SkipsGroup(it, stepGroups[g]) => << it, g >> \in Executions

\* executeOneStep threw and the run was abandoned
EndedOnStepError == Rejected /\ ~approved

\* C36: assuming every step invocation returns, every run terminates,
\* having performed at most max * (number of steps) step invocations, and a
\* run that entered its loops ends in exactly one of three ways:
\* approved, iteration budget completed, or a step execution error.
C36_RunsTerminateWithinBudget ==
    /\ <>(pc = "done")
    /\ [](stepGroups # << >> =>
             /\ Len(invoked) <= maxIterations * Len(config.steps)
             /\ pc = "done" =>
                   Cardinality({ e \in {"approved", "budget", "error"} :
                       \/ e = "approved" /\ EndedApproved
                       \/ e = "budget" /\ EndedBudgetCompleted
                       \/ e = "error" /\ EndedOnStepError }) = 1)

\* A run has used its whole budget: it ended unapproved after
\* max * (number of steps) invocations over more than one iteration
C36_Witness ==
    /\ pc = "done"
    /\ maxIterations >= 2
    /\ EndedBudgetCompleted
    /\ Len(invoked) = maxIterations * Len(config.steps)

=============================================================================
